---- MODULE Spec2Model ----
(***************************************************************************)
(* Model of the stock tracker's monitoring engine: the trackings           *)
(* collection (database.py), the poll cycle and the single-item check      *)
(* (bot.py _check_all_stocks / _check_single_stock), and the owner         *)
(* actions that write to the same collection (pause, resume, remove,       *)
(* add / revive, frequency selection, notification settings).              *)
(*                                                                         *)
(* Time is counted in minutes.  The interval job fires once per            *)
(* DEFAULT_CHECK_INTERVAL, so the clock advances in steps of that size and *)
(* every step of the clock is one firing of the job.                       *)
(***************************************************************************)
EXTENDS Integers, Sequences, FiniteSets, TLC

\* ---------------------------------------------------------------- bounds
MaxTrackings == 2
MaxHash == 2
MaxTicks == 3
\* config.MAX_CONCURRENT_REQUESTS, read from the environment
MAX_CONCURRENT_REQUESTS == 1
\* firings of the interval job in the cycle-only specification
MaxCycleTicks == 2
MaxPath == 2
MaxQuery == 2
RATE_LIMIT_PER_USER == 2
RATE_LIMIT_WINDOW == 2
MaxClock == 4
SmallPage == 1

\* ------------------------------------------------------ program constants
DEFAULT_CHECK_INTERVAL == 60
ERROR_THRESHOLD == 5
max_instances == 3
PAGE_LIMIT == 100

Ids == 1..MaxTrackings
\* the owners and the product pages of the model
Users == {"u1"}
Urls == {"url1"}
\* every owner and every product page of the model: url1 and url1b are two
\* addresses that carry the same product id, url2 carries none
AllUsers == {"u1", "u2"}
AllUrls == {"url1", "url1b", "url2"}
\* product_key = None, and no pending_track entry
NoKey == [kind |-> "None", value |-> ""]
NoPending == "none"
\* no scraper call is under way
NoCall == [op |-> "none"]
Hashes == 1..MaxHash

\* last_page_hash = None
NoHash == 0
\* a document without the last_checked field / with last_checked: null
NoField == [kind |-> "absent", at |-> 0]
Null == [kind |-> "null", at |-> 0]
Date(t) == [kind |-> "date", at |-> t]
\* no document with this _id: never inserted, or deleted (an ObjectId is
\* never used again)
NoDoc == [doc |-> "none"]
Deleted == [doc |-> "deleted"]
Exists(d) == d \notin {NoDoc, Deleted}

ACTIVE == "active"
PAUSED == "paused"
OUT_OF_STOCK == "out_of_stock"
IN_STOCK == "in_stock"
ERROR == "error"
TrackingStatus == {ACTIVE, PAUSED, OUT_OF_STOCK, IN_STOCK, ERROR}

Frequencies == {10, 60, 180, 360}
Deliveries == {"delivered", "forbidden", "failed"}

\* the states of the add-tracking ConversationHandler; END leaves the user
\* without a conversation
WAITING_FOR_URL == "WAITING_FOR_URL"
WAITING_FOR_OPTION == "WAITING_FOR_OPTION"
SETTING_FREQUENCY == "SETTING_FREQUENCY"
END == "END"
NoConversation == [u \in AllUsers |-> END]

VARIABLES now, trackings, notifications_enabled, jobs, alert, consecutive_failures, stock_run,
          user_stats, pending_track, scrape, conversation, blocked_bot, rate_limit_cache, admitted

\* the users collection's counters and context.user_data['pending_track']
ownerVars == <<user_stats, pending_track>>
\* the call of the scraper that is under way
scraperVars == <<scrape>>
\* self.rate_limit_cache, and the requests that _check_rate_limit let through
limiterVars == <<rate_limit_cache, admitted>>

vars == <<now, trackings, notifications_enabled, jobs, alert, consecutive_failures, stock_run,
          ownerVars, scraperVars, conversation, blocked_bot, limiterVars>>

\* ------------------------------------------------------------ data model
ProductTracking(user, url, mode, status, ec, hash, checked) ==
    [user_id |-> user, product_url |-> url, tracking_mode |-> mode,
     status |-> status, error_count |-> ec, notification_sent |-> FALSE,
     last_page_hash |-> hash, change_count |-> 0, last_checked |-> checked,
     check_interval |-> DEFAULT_CHECK_INTERVAL]

\* a timestamp written before the model's clock started, already stale
Past == 0 - 2 * DEFAULT_CHECK_INTERVAL

\* documents persisted by earlier runs: legacy stock-mode documents (no
\* tracking_mode field reads as 'stock') and changes-mode documents, active,
\* with the error count of zero or four earlier consecutive failures
StoredDocs ==
    { ProductTracking("u1", "url1", m, ACTIVE, ec, h,
                      IF ec = 0 /\ h = NoHash THEN NoField ELSE Date(Past)) :
        m \in {"stock", "changes"}, ec \in {0, ERROR_THRESHOLD - 1}, h \in {NoHash, 1} }

InitStores ==
    { [t \in Ids |-> IF t = 1 THEN d ELSE NoDoc] :
        d \in {NoDoc} \cup {x \in StoredDocs : x.tracking_mode = "stock" => x.last_page_hash = NoHash} }

\* the counters of a user document
UserStats(n) == [total_trackings |-> n, active_trackings |-> n]

\* the documents of one owner
Owned(coll, user_id) == {t \in Ids : Exists(coll[t]) /\ coll[t].user_id = user_id}

\* a cycle that found nothing to check; i is the offset of the batch loop
IdleJob == [phase |-> "idle", todo |-> <<>>, batch |-> {}, i |-> 0]

NoRun == [result |-> "none", after_out |-> FALSE, in_polls |-> 0, alerts |-> 0]

Init ==
    /\ now = 0
    /\ trackings \in InitStores
    /\ notifications_enabled = [u \in AllUsers |-> TRUE]
    /\ jobs = <<>>
    /\ alert = [t \in Ids |-> "none"]
    /\ consecutive_failures = [t \in Ids |-> IF ~Exists(trackings[t]) THEN 0 ELSE trackings[t].error_count]
    /\ stock_run = [t \in Ids |-> NoRun]
    /\ user_stats = [u \in AllUsers |-> UserStats(Cardinality(Owned(trackings, u)))]
    /\ pending_track = [u \in AllUsers |-> NoPending]
    /\ conversation = NoConversation
    /\ blocked_bot = [u \in AllUsers |-> FALSE]
    /\ rate_limit_cache = [u \in AllUsers |-> <<>>]
    /\ admitted = [u \in AllUsers |-> <<>>]
    /\ scrape = NoCall

\* ------------------------------------------------------------- database.py
Min(a, b) == IF a < b THEN a ELSE b

\* update_tracking_status that leaves notification_sent alone unless it is
\* given as true
UpdateTrackingStatus_KeepsFlag(coll, tracking_id, new_status, error_count, notification_sent, page_hash, change_detected) ==
    IF ~Exists(coll[tracking_id]) THEN coll
    ELSE [coll EXCEPT ![tracking_id] =
            [@ EXCEPT !.status = new_status,
                      !.last_checked = Date(now),
                      !.error_count = error_count,
                      !.notification_sent = notification_sent \/ @,
                      !.last_page_hash = IF page_hash # NoHash THEN page_hash ELSE @,
                      !.change_count = IF change_detected THEN @ + 1 ELSE @]]

\* update_tracking_status with a filter on the product page instead of the
\* _id: every document of that page is updated
UpdateTrackingStatus_ByUrl(coll, tracking_id, new_status, error_count, notification_sent, page_hash, change_detected) ==
    IF ~Exists(coll[tracking_id]) THEN coll
    ELSE [x \in Ids |->
            IF Exists(coll[x]) /\ coll[x].product_url = coll[tracking_id].product_url
            THEN [coll[x] EXCEPT !.status = new_status,
                                 !.last_checked = Date(now),
                                 !.error_count = error_count,
                                 !.notification_sent = notification_sent,
                                 !.last_page_hash = IF page_hash # NoHash THEN page_hash ELSE @,
                                 !.change_count = IF change_detected THEN @ + 1 ELSE @]
            ELSE coll[x]]

\* update_tracking_status as an upsert: an _id that matches no document gets
\* a document made of the fields that are set
UpdateTrackingStatus_Upsert(coll, tracking_id, new_status, error_count, notification_sent, page_hash, change_detected) ==
    IF ~Exists(coll[tracking_id])
    THEN [coll EXCEPT ![tracking_id] =
            [ProductTracking("u1", "url1", "stock", new_status, error_count, page_hash, Date(now))
                EXCEPT !.notification_sent = notification_sent]]
    ELSE [coll EXCEPT ![tracking_id] =
            [@ EXCEPT !.status = new_status,
                      !.last_checked = Date(now),
                      !.error_count = error_count,
                      !.notification_sent = notification_sent,
                      !.last_page_hash = IF page_hash # NoHash THEN page_hash ELSE @,
                      !.change_count = IF change_detected THEN @ + 1 ELSE @]]

\* update_one({'_id': tracking_id}, {'$set': ..., '$inc': ...}): a filter that
\* matches no document changes nothing
UpdateTrackingStatus(coll, tracking_id, new_status, error_count, notification_sent, page_hash, change_detected) ==
    IF ~Exists(coll[tracking_id]) THEN coll
    ELSE [coll EXCEPT ![tracking_id] =
            [@ EXCEPT !.status = new_status,
                      !.last_checked = Date(now),
                      !.error_count = error_count,
                      !.notification_sent = notification_sent,
                      !.last_page_hash = IF page_hash # NoHash THEN page_hash ELSE @,
                      !.change_count = IF change_detected THEN @ + 1 ELSE @]]

\* a query without the status filter
NeedsCheck_AnyStatus(doc, utcnow, max_age_minutes) ==
    /\ Exists(doc)
    /\ \/ doc.last_checked = NoField
       \/ /\ doc.last_checked.kind = "date"
          /\ doc.last_checked.at < utcnow - max_age_minutes

\* the query of get_trackings_to_check: status active and last_checked older
\* than the cutoff or the field missing ($lt never matches null)
NeedsCheck(doc, utcnow, max_age_minutes) ==
    /\ Exists(doc)
    /\ doc.status = ACTIVE
    /\ \/ doc.last_checked = NoField
       \/ /\ doc.last_checked.kind = "date"
          /\ doc.last_checked.at < utcnow - max_age_minutes

\* ids in natural order
RECURSIVE SortedIds(_)
SortedIds(S) ==
    IF S = {} THEN <<>>
    ELSE LET m == CHOOSE x \in S : \A y \in S : x <= y
         IN <<m>> \o SortedIds(S \ {m})

\* the ProductTracking objects the cycle works on: copies of the documents
Snapshot(coll, t) ==
    [id |-> t, user_id |-> coll[t].user_id, tracking_mode |-> coll[t].tracking_mode,
     status |-> coll[t].status, error_count |-> coll[t].error_count,
     notification_sent |-> coll[t].notification_sent,
     last_page_hash |-> coll[t].last_page_hash]

\* find(query).limit(n): the first n matching documents in natural order
FindLimit(coll, utcnow, max_age_minutes, n) ==
    LET due == SortedIds({t \in Ids : NeedsCheck(coll[t], utcnow, max_age_minutes)})
    IN [i \in 1..Min(Len(due), n) |-> Snapshot(coll, due[i])]

GetTrackingsToCheck(coll, utcnow, max_age_minutes) ==
    FindLimit(coll, utcnow, max_age_minutes, PAGE_LIMIT)

\* ------------------------------------------------------------ poll cycle
\* a batch that takes the whole list at once
StartBatch_WholeList(todo) ==
    LET n == Len(todo)
    IN [phase |-> "batch",
        batch |-> {todo[i] : i \in 1..n},
        todo |-> SubSeq(todo, n + 1, Len(todo)),
        i |-> 0]

\* trackings[i:i + batch_size] of the list that is left
StartBatch(todo) ==
    LET n == Min(Len(todo), MAX_CONCURRENT_REQUESTS)
    IN [phase |-> "batch",
        batch |-> {todo[i] : i \in 1..n},
        todo |-> SubSeq(todo, n + 1, Len(todo)),
        i |-> 0]

\* _check_all_stocks up to its first gather
CheckAllStocks(coll, utcnow) ==
    LET found == GetTrackingsToCheck(coll, utcnow, DEFAULT_CHECK_INTERVAL)
    IN IF Len(found) = 0 THEN IdleJob ELSE StartBatch(found)

RemoveAt(s, j) == SubSeq(s, 1, j - 1) \o SubSeq(s, j + 1, Len(s))

\* the interval trigger: one firing per DEFAULT_CHECK_INTERVAL; the run is
\* skipped while max_instances instances of the job are still running, and an
\* instance that finds nothing to check returns at once
Tick ==
    /\ now < MaxTicks * DEFAULT_CHECK_INTERVAL
    /\ now' = now + DEFAULT_CHECK_INTERVAL
    /\ LET job == CheckAllStocks(trackings, now')
       IN jobs' = IF Len(jobs) >= max_instances \/ job = IdleJob THEN jobs
                  ELSE Append(jobs, job)
    /\ UNCHANGED <<trackings, notifications_enabled, alert, consecutive_failures, stock_run, ownerVars, scraperVars, blocked_bot, conversation, limiterVars>>

\* asyncio.sleep(1) after a batch is over: the next batch, or the end of the cycle
BatchDelay(j) ==
    /\ jobs[j].phase = "sleep"
    /\ jobs' = IF Len(jobs[j].todo) = 0 THEN RemoveAt(jobs, j)
               ELSE [jobs EXCEPT ![j] =
                        [StartBatch(jobs[j].todo) EXCEPT !.i = jobs[j].i + MAX_CONCURRENT_REQUESTS]]
    /\ UNCHANGED <<now, trackings, notifications_enabled, alert, consecutive_failures, stock_run, ownerVars, scraperVars, blocked_bot, conversation, limiterVars>>

\* ------------------------------------------------------------ single check
PageResults ==
    {[error |-> TRUE, hash |-> NoHash]} \cup {[error |-> FALSE, hash |-> h] : h \in Hashes}

\* check_stock_status: None, True or False
StockResults == {"None", "True", "False"}

\* scraper.check_page_changes(url, store_id, last_hash)
CheckPageChanges(page, last_hash) ==
    IF page.error
    THEN [change_type |-> "error", changed |-> FALSE, current_hash |-> NoHash]
    ELSE IF last_hash = NoHash
    THEN [change_type |-> "initial", changed |-> FALSE, current_hash |-> page.hash]
    ELSE IF page.hash # last_hash
    THEN [change_type |-> "content", changed |-> TRUE, current_hash |-> page.hash]
    ELSE [change_type |-> "none", changed |-> FALSE, current_hash |-> page.hash]

\* the arguments of the one update_tracking_status call of a check, and
\* whether the notification is sent after it
PollOutcome(new_status, error_count, notification_sent, page_hash, change_detected, notify, failed) ==
    [new_status |-> new_status, error_count |-> error_count,
     notification_sent |-> notification_sent, page_hash |-> page_hash,
     change_detected |-> change_detected, notify |-> notify, failed |-> failed]

\* changes mode with the threshold test error_count > 5
ChangesOutcome_LateThreshold(tracking, change_result) ==
    IF change_result.change_type = "error"
    THEN LET error_count == tracking.error_count + 1
         IN IF error_count > ERROR_THRESHOLD
            THEN PollOutcome(ERROR, error_count, FALSE, NoHash, FALSE, FALSE, TRUE)
            ELSE PollOutcome(tracking.status, error_count, FALSE, NoHash, FALSE, FALSE, TRUE)
    ELSE IF change_result.changed /\ change_result.change_type # "initial"
    THEN PollOutcome(ACTIVE, 0, TRUE, change_result.current_hash, TRUE, TRUE, FALSE)
    ELSE PollOutcome(ACTIVE, 0, FALSE, change_result.current_hash, FALSE, FALSE, FALSE)

\* changes mode that alerts whenever the current hash differs from the hash
\* the check was given, the first check included
ChangesOutcome_NoInitialGuard(tracking, change_result) ==
    IF change_result.change_type = "error"
    THEN LET error_count == tracking.error_count + 1
         IN IF error_count >= ERROR_THRESHOLD
            THEN PollOutcome(ERROR, error_count, FALSE, NoHash, FALSE, FALSE, TRUE)
            ELSE PollOutcome(tracking.status, error_count, FALSE, NoHash, FALSE, FALSE, TRUE)
    ELSE IF change_result.current_hash # tracking.last_page_hash
    THEN PollOutcome(ACTIVE, 0, TRUE, change_result.current_hash, TRUE, TRUE, FALSE)
    ELSE PollOutcome(ACTIVE, 0, FALSE, change_result.current_hash, FALSE, FALSE, FALSE)

\* changes mode
ChangesOutcome(tracking, change_result) ==
    IF change_result.change_type = "error"
    THEN LET error_count == tracking.error_count + 1
         IN IF error_count >= ERROR_THRESHOLD
            THEN PollOutcome(ERROR, error_count, FALSE, NoHash, FALSE, FALSE, TRUE)
            ELSE PollOutcome(tracking.status, error_count, FALSE, NoHash, FALSE, FALSE, TRUE)
    ELSE IF change_result.changed /\ change_result.change_type # "initial"
    THEN PollOutcome(ACTIVE, 0, TRUE, change_result.current_hash, TRUE, TRUE, FALSE)
    ELSE PollOutcome(ACTIVE, 0, FALSE, change_result.current_hash, FALSE, FALSE, FALSE)

\* legacy stock mode that notifies on every in-stock result
StockOutcome_NotifyWhenInStock(tracking, current_status) ==
    IF current_status = "None"
    THEN LET error_count == tracking.error_count + 1
         IN IF error_count >= ERROR_THRESHOLD
            THEN PollOutcome(ERROR, error_count, FALSE, NoHash, FALSE, FALSE, TRUE)
            ELSE PollOutcome(tracking.status, error_count, FALSE, NoHash, FALSE, FALSE, TRUE)
    ELSE LET new_status == IF current_status = "True" THEN IN_STOCK ELSE OUT_OF_STOCK
             should_notify == new_status = IN_STOCK
         IN PollOutcome(new_status, 0, should_notify, NoHash, FALSE, should_notify, FALSE)

\* legacy stock mode
StockOutcome(tracking, current_status) ==
    IF current_status = "None"
    THEN LET error_count == tracking.error_count + 1
         IN IF error_count >= ERROR_THRESHOLD
            THEN PollOutcome(ERROR, error_count, FALSE, NoHash, FALSE, FALSE, TRUE)
            ELSE PollOutcome(tracking.status, error_count, FALSE, NoHash, FALSE, FALSE, TRUE)
    ELSE LET new_status == IF current_status = "True" THEN IN_STOCK ELSE OUT_OF_STOCK
             should_notify == /\ tracking.status = OUT_OF_STOCK
                              /\ new_status = IN_STOCK
                              /\ ~tracking.notification_sent
         IN PollOutcome(new_status, 0, should_notify, NoHash, FALSE, should_notify, FALSE)

Fetched(tracking) ==
    IF tracking.tracking_mode = "changes" THEN PageResults ELSE StockResults

CheckOutcome(tracking, fetched) ==
    IF tracking.tracking_mode = "changes"
    THEN ChangesOutcome(tracking, CheckPageChanges(fetched, tracking.last_page_hash))
    ELSE StockOutcome(tracking, fetched)

\* _send_change_notification / _send_stock_notification: a message reaches the
\* owner unless notifications are disabled or send_message raises
SendNotification(enabled, user_id, delivery) ==
    enabled[user_id] /\ delivery = "delivered"

\* a notifier whose except Forbidden branch only logs
FlagBlocked_OnlyLogs(blocked, enabled, user_id, delivery) == blocked

\* the except Forbidden branch of the notifiers: the owner's users document
\* gets blocked_bot = True
FlagBlocked(blocked, enabled, user_id, delivery) ==
    IF enabled[user_id] /\ delivery = "forbidden"
    THEN [blocked EXCEPT ![user_id] = TRUE]
    ELSE blocked

\* send_message is called only when the check decided to notify
SendOutcomes(tracking, fetched) ==
    IF CheckOutcome(tracking, fetched).notify THEN Deliveries ELSE {"not called"}

\* a loop without the sleep: the next batch starts when gather returns
FinishCheck_NoSleep(job, tracking) ==
    IF job.batch = {tracking} /\ Len(job.todo) > 0
    THEN [StartBatch(job.todo) EXCEPT !.i = job.i + MAX_CONCURRENT_REQUESTS]
    ELSE [job EXCEPT !.batch = @ \ {tracking},
                     !.phase = IF job.batch = {tracking} THEN "sleep" ELSE @]

\* gather returns when the last check of the batch is over; the sleep follows
FinishCheck(job, tracking) ==
    [job EXCEPT !.batch = @ \ {tracking},
                !.phase = IF job.batch = {tracking} THEN "sleep" ELSE @]

\* the current run of equal stock results of a tracking: whether an
\* out-of-stock result came before it, the in-stock polls of the run and the
\* notifier calls made in it
NextRun(run, outcome) ==
    IF outcome.failed THEN run
    ELSE IF outcome.new_status = OUT_OF_STOCK
    THEN [result |-> "out", after_out |-> FALSE, in_polls |-> 0, alerts |-> 0]
    ELSE IF outcome.new_status = IN_STOCK
    THEN IF run.result = "in"
         THEN [run EXCEPT !.in_polls = @ + 1,
                          !.alerts = @ + (IF outcome.notify THEN 1 ELSE 0)]
         ELSE [result |-> "in", after_out |-> run.result = "out", in_polls |-> 1,
               alerts |-> IF outcome.notify THEN 1 ELSE 0]
    ELSE run

CheckSingleStock(j, tracking, fetched, delivery) ==
    /\ jobs[j].phase = "batch"
    /\ tracking \in jobs[j].batch
    /\ LET outcome == CheckOutcome(tracking, fetched)
           t == tracking.id
       IN /\ trackings' = UpdateTrackingStatus(trackings, t, outcome.new_status,
                              outcome.error_count, outcome.notification_sent,
                              outcome.page_hash, outcome.change_detected)
          /\ alert' = [alert EXCEPT ![t] =
                IF ~outcome.notify THEN "none"
                ELSE IF SendNotification(notifications_enabled, tracking.user_id, delivery)
                THEN "sent" ELSE "lost"]
          /\ consecutive_failures' =
                [consecutive_failures EXCEPT ![t] = IF outcome.failed THEN @ + 1 ELSE 0]
          /\ stock_run' = [stock_run EXCEPT ![t] = NextRun(@, outcome)]
          /\ blocked_bot' = IF outcome.notify
                            THEN FlagBlocked(blocked_bot, notifications_enabled, tracking.user_id, delivery)
                            ELSE blocked_bot
    /\ jobs' = [jobs EXCEPT ![j] = FinishCheck(@, tracking)]
    /\ UNCHANGED <<now, notifications_enabled, ownerVars, scraperVars, conversation, limiterVars>>

\* an exception that leaves the check: gather raises it into
\* _check_all_stocks, whose except ends the cycle
CheckRaises_AbortsCycle(j, tracking) ==
    /\ jobs[j].phase = "batch"
    /\ tracking \in jobs[j].batch
    /\ jobs' = RemoveAt(jobs, j)
    /\ UNCHANGED <<now, trackings, notifications_enabled, alert, consecutive_failures, stock_run, ownerVars, scraperVars, blocked_bot, conversation, limiterVars>>

\* an exception inside the check (the scraper or the store raises) is caught
\* and logged, and a check of an unknown store id returns at once; nothing is
\* written
CheckRaises(j, tracking) ==
    /\ jobs[j].phase = "batch"
    /\ tracking \in jobs[j].batch
    /\ jobs' = [jobs EXCEPT ![j] = FinishCheck(@, tracking)]
    /\ UNCHANGED <<now, trackings, notifications_enabled, alert, consecutive_failures, stock_run, ownerVars, scraperVars, blocked_bot, conversation, limiterVars>>

\* ------------------------------------------------------------ owner actions
HandlePauseTracking(t) ==
    /\ trackings' = UpdateTrackingStatus(trackings, t, PAUSED, 0, FALSE, NoHash, FALSE)
    /\ alert' = [alert EXCEPT ![t] = "none"]
    /\ UNCHANGED <<now, notifications_enabled, jobs, consecutive_failures, stock_run, ownerVars, scraperVars, blocked_bot, conversation, limiterVars>>

HandleResumeTracking(t) ==
    /\ trackings' = UpdateTrackingStatus(trackings, t, ACTIVE, 0, FALSE, NoHash, FALSE)
    /\ alert' = [alert EXCEPT ![t] = "none"]
    /\ UNCHANGED <<now, notifications_enabled, jobs, consecutive_failures, stock_run, ownerVars, scraperVars, blocked_bot, conversation, limiterVars>>

\* delete_one({'_id': tracking_id}): the owner is not part of the filter
RemoveTracking_AnyUser(coll, user_id, tracking_id) ==
    IF Exists(coll[tracking_id])
    THEN [coll EXCEPT ![tracking_id] = Deleted]
    ELSE coll

\* delete_one({'_id': tracking_id, 'user_id': user_id})
RemoveTracking(coll, user_id, tracking_id) ==
    IF Exists(coll[tracking_id]) /\ coll[tracking_id].user_id = user_id
    THEN [coll EXCEPT ![tracking_id] = Deleted]
    ELSE coll

\* the counter update of remove_tracking, made when a document was deleted
RemoveStats(stats, user_id, deleted) ==
    IF deleted THEN [stats EXCEPT ![user_id].active_trackings = @ - 1] ELSE stats

\* remove_tracking returns True when delete_one deleted a document
RemoveResult(coll, user_id, tracking_id) ==
    RemoveTracking(coll, user_id, tracking_id) # coll

HandleRemoveTracking(u, t) ==
    /\ trackings' = RemoveTracking(trackings, u, t)
    /\ user_stats' = RemoveStats(user_stats, u, RemoveResult(trackings, u, t))
    /\ alert' = [alert EXCEPT ![t] = IF Exists(trackings'[t]) THEN @ ELSE "none"]
    /\ UNCHANGED <<now, notifications_enabled, jobs, consecutive_failures, stock_run, pending_track, scraperVars, blocked_bot, conversation, limiterVars>>

HandleFrequencySelection(t, frequency) ==
    /\ trackings' = IF Exists(trackings[t])
                    THEN [trackings EXCEPT ![t].check_interval = frequency]
                    ELSE trackings
    /\ UNCHANGED <<now, notifications_enabled, jobs, alert, consecutive_failures, stock_run, ownerVars, scraperVars, blocked_bot, limiterVars>>

\* an address as urlparse splits it: the host, the path as its segments and
\* the query as its name=value pairs in order. A segment is a digit run or
\* has no digit; "[shop" is a host that urlparse rejects (ValueError)
Digits == {"1", "2"}
Segments == {"product"} \cup Digits
ParamNames == {"ite_item", "uuid", "ref"}
ParamValues == {""} \cup Digits
Params == [name : ParamNames, value : ParamValues]
SeqsUpTo(S, n) == UNION {[1..k -> S] : k \in 0..n}
ParsedUrls ==
    [netloc : {"shop", "[shop"}, path : SeqsUpTo(Segments, MaxPath),
     query : SeqsUpTo(Params, MaxQuery)]
StoreIds == {"mashkar", "hot"}

\* parse_qs(parsed.query)[name]: the values given to the name, in order,
\* blank values dropped; the empty sequence when the name is not a key
ParseQs(query, name) ==
    LET given == SelectSeq(query, LAMBDA p : p.name = name /\ p.value # "")
    IN [i \in 1..Len(given) |-> given[i].value]

\* re.search(r'/product/(\d+)', parsed.path): the positions of the match
ProductMatches(path) ==
    {i \in 1..(Len(path) - 1) : path[i] = "product" /\ path[i + 1] \in Digits}

\* re.search(r'(\d+)', parsed.path): the positions of the digit runs
DigitRuns(path) == {i \in 1..Len(path) : path[i] \in Digits}

\* match.group(1) of re.search: of the first match
First(matches) == CHOOSE i \in matches : \A j \in matches : i <= j

\* f"{kind}:{value}"
Key(kind, value) == [kind |-> kind, value |-> value]

\* a get_product_key that looks at the path before the query
get_product_key_PathFirst(url, store_id) ==
    IF url.netloc = "[shop" THEN NoKey
    ELSE IF DigitRuns(url.path) # {} THEN Key("id", url.path[First(DigitRuns(url.path))])
    ELSE IF Len(ParseQs(url.query, "ite_item")) > 0
         THEN Key("ite_item", ParseQs(url.query, "ite_item")[1])
    ELSE IF Len(ParseQs(url.query, "uuid")) > 0
         THEN Key("uuid", ParseQs(url.query, "uuid")[1])
    ELSE NoKey

\* StockScraper.get_product_key
get_product_key(url, store_id) ==
    IF url.netloc = "[shop" THEN NoKey
    ELSE IF Len(ParseQs(url.query, "ite_item")) > 0
         THEN Key("ite_item", ParseQs(url.query, "ite_item")[1])
    ELSE IF Len(ParseQs(url.query, "uuid")) > 0
         THEN Key("uuid", ParseQs(url.query, "uuid")[1])
    ELSE IF store_id = "mashkar" /\ ProductMatches(url.path) # {}
         THEN Key("id", url.path[First(ProductMatches(url.path)) + 1])
    ELSE IF DigitRuns(url.path) # {} THEN Key("id", url.path[First(DigitRuns(url.path))])
    ELSE NoKey

\* the addresses that the handlers are sent, as urlparse splits them
Address(url) ==
    CASE url = "url1"  -> [netloc |-> "shop", path |-> <<"product", "1">>, query |-> <<>>]
      [] url = "url1b" -> [netloc |-> "shop", path |-> <<"product", "1">>,
                           query |-> <<[name |-> "ref", value |-> "1"]>>]
      [] OTHER         -> [netloc |-> "shop", path |-> <<"product">>, query |-> <<>>]

\* get_product_key as handle_url_input calls it, with the store of the address
GetProductKey(url) == get_product_key(Address(url), "hot")

\* find_one({'user_id': user_id, '$or': [{'product_url': url},
\*           {'product_key': product_key, 'store_id': store_id}]}): the stored
\* product_key is the key of the stored address, and a null key of the
\* address sent matches a document whose key is null
Existing(coll, user_id, url) ==
    {t \in Ids : /\ Exists(coll[t])
                 /\ coll[t].user_id = user_id
                 /\ \/ coll[t].product_url = url
                    \/ GetProductKey(coll[t].product_url) = GetProductKey(url)}

\* a revive that resets the error count and leaves the status as it is
Revive_KeepsStatus(doc) ==
    [doc EXCEPT !.error_count = 0, !.notification_sent = FALSE]

\* the 'Revive ERROR tracking' update of handle_url_input
Revive(doc) ==
    [doc EXCEPT !.status = ACTIVE, !.error_count = 0, !.notification_sent = FALSE]

\* add_tracking: a new document, status active, last_checked: null
AddTracking(user_id, url) ==
    ProductTracking(user_id, url, "changes", ACTIVE, 0, NoHash, Null)

\* the filter of add_tracking's find_one_and_update
SameUrl(coll, user_id, url) ==
    {t \in Ids : Exists(coll[t]) /\ coll[t].user_id = user_id /\ coll[t].product_url = url}

\* find_one_and_update(filter, {'$setOnInsert': doc}, upsert=True): a
\* document that matches is left as it is, else the document is inserted
\* under the new id t
Upsert(coll, user_id, url, t) ==
    IF SameUrl(coll, user_id, url) # {}
    THEN coll
    ELSE [coll EXCEPT ![t] = AddTracking(user_id, url)]

\* the ids the next insert can get
FreeIds(coll) ==
    {t \in Ids : coll[t] = NoDoc /\ \A x \in Ids : x < t => coll[x] # NoDoc}

\* database.add_tracking: the upsert, then the counters are incremented when
\* the document returned carries created_at == now; exact tells whether the
\* timestamp written reads back equal to the one held in memory
AddTrackingUpsert(u, url, exact) ==
    \E t \in FreeIds(trackings) :
        /\ trackings' = Upsert(trackings, u, url, t)
        /\ user_stats' = IF exact /\ SameUrl(trackings, u, url) = {}
                         THEN [user_stats EXCEPT ![u].total_trackings = @ + 1,
                                                 ![u].active_trackings = @ + 1]
                         ELSE user_stats

\* what handle_url_input learns before it looks at the store: _validate_url
\* knows no store for the text, or get_product_info returns None, a
\* ProductInfo with error_message, one whose name is an error name, or a
\* product
Lookups == {"invalid_url", "None", "error_message", "error_name", "named"}
LookupFails(lookup) == lookup \in {"None", "error_message", "error_name"}

\* a lookup test that lets an error name through
Rejected_ErrorNamePasses(lookup) == lookup \in {"invalid_url", "None", "error_message"}

\* the two early returns of handle_url_input
Rejected(lookup) == lookup = "invalid_url" \/ LookupFails(lookup)

\* handle_url_input; options tells whether get_purchase_options found
\* purchase options on the page
HandleUrlInput(u, url, lookup, options, exact) ==
    /\ IF Rejected(lookup)
       THEN UNCHANGED <<trackings, consecutive_failures, alert, ownerVars>>
       ELSE LET existing == Existing(trackings, u, url)
            IN IF existing # {}
               THEN LET t == CHOOSE x \in existing : \A y \in existing : x <= y
                    IN /\ IF trackings[t].status = ERROR
                          THEN /\ trackings' = [trackings EXCEPT ![t] = Revive(@)]
                               /\ consecutive_failures' = [consecutive_failures EXCEPT ![t] = 0]
                               /\ alert' = [alert EXCEPT ![t] = "none"]
                          ELSE UNCHANGED <<trackings, consecutive_failures, alert>>
                       /\ UNCHANGED ownerVars
               ELSE IF options
                    THEN /\ pending_track' = [pending_track EXCEPT ![u] = url]
                         /\ UNCHANGED <<trackings, user_stats, consecutive_failures, alert>>
                    ELSE /\ AddTrackingUpsert(u, url, exact)
                         /\ UNCHANGED <<pending_track, consecutive_failures, alert>>
    /\ UNCHANGED <<now, notifications_enabled, jobs, stock_run, scraperVars, blocked_bot, limiterVars>>

\* what becomes of the replies of a handler: sent, or the first raises and
\* the error reply of the except branch is sent, or both raise
Replies == {"sent", "error_sent", "raises"}
Raises == "raises"

\* the value handle_url_input returns; Raises when the exception leaves the
\* handler
UrlInputReturn(coll, u, url, lookup, options, reply) ==
    IF reply = "raises" THEN Raises
    ELSE IF reply = "error_sent" THEN END
    ELSE IF Rejected(lookup) THEN WAITING_FOR_URL
    ELSE LET existing == Existing(coll, u, url)
         IN IF existing # {}
            THEN LET t == CHOOSE x \in existing : \A y \in existing : x <= y
                 IN IF coll[t].status = ERROR THEN SETTING_FREQUENCY ELSE END
            ELSE IF options THEN WAITING_FOR_OPTION ELSE SETTING_FREQUENCY

\* handle_option_selection: the tracking of the pending address is created
\* with the option chosen, and the pending entry is dropped
HandleOptionSelection(u, exact) ==
    /\ pending_track[u] # NoPending
    /\ AddTrackingUpsert(u, pending_track[u], exact)
    /\ pending_track' = [pending_track EXCEPT ![u] = NoPending]
    /\ UNCHANGED <<now, notifications_enabled, jobs, alert, consecutive_failures, stock_run, scraperVars, blocked_bot, limiterVars>>

\* settings_notifications_on / settings_notifications_off
HandleSettings(u, new_value) ==
    /\ notifications_enabled' = [notifications_enabled EXCEPT ![u] = new_value]
    /\ UNCHANGED <<now, trackings, jobs, alert, consecutive_failures, stock_run, ownerVars, scraperVars, blocked_bot, conversation, limiterVars>>

Next ==
    \/ Tick
    \/ \E j \in DOMAIN jobs : BatchDelay(j)
    \/ \E j \in DOMAIN jobs : \E tracking \in jobs[j].batch :
          \E fetched \in Fetched(tracking) : \E delivery \in SendOutcomes(tracking, fetched) :
              CheckSingleStock(j, tracking, fetched, delivery)
    \/ \E j \in DOMAIN jobs : \E tracking \in jobs[j].batch : CheckRaises(j, tracking)
    \/ \E t \in Ids : HandlePauseTracking(t)
    \/ \E t \in Ids : HandleResumeTracking(t)
    \/ \E u \in Users, t \in Ids : HandleRemoveTracking(u, t)
    \/ \E t \in Ids, frequency \in Frequencies :
          HandleFrequencySelection(t, frequency) /\ UNCHANGED conversation
    \/ \E u \in Users, url \in Urls :
          HandleUrlInput(u, url, "named", FALSE, FALSE) /\ UNCHANGED conversation
    \/ \E u \in Users, new_value \in BOOLEAN : HandleSettings(u, new_value)

Spec == Init /\ [][Next]_vars

\* ------------------------------------------------- the cycle on a full store
\* a store that holds one due tracking per id, each of its own product page,
\* and the poll cycle alone: no owner is active
CycleUrls == <<"url1", "url2", "url3", "url4">>

InitCycle ==
    /\ now = 0
    /\ trackings = [t \in Ids |-> ProductTracking("u1", CycleUrls[t], "changes", ACTIVE, 0, NoHash, NoField)]
    /\ notifications_enabled = [u \in AllUsers |-> TRUE]
    /\ jobs = <<>>
    /\ alert = [t \in Ids |-> "none"]
    /\ consecutive_failures = [t \in Ids |-> 0]
    /\ stock_run = [t \in Ids |-> NoRun]
    /\ user_stats = [u \in AllUsers |-> UserStats(Cardinality(Owned(trackings, u)))]
    /\ pending_track = [u \in AllUsers |-> NoPending]
    /\ conversation = NoConversation
    /\ blocked_bot = [u \in AllUsers |-> FALSE]
    /\ rate_limit_cache = [u \in AllUsers |-> <<>>]
    /\ admitted = [u \in AllUsers |-> <<>>]
    /\ scrape = NoCall

\* the results a check meets here: the fetch fails, or it returns one page
CycleFetched(tracking) ==
    {page \in Fetched(tracking) : page.error \/ page.hash = 1}

\* a step of a running cycle
CycleStep ==
    \/ \E j \in DOMAIN jobs : BatchDelay(j)
    \/ \E j \in DOMAIN jobs : \E tracking \in jobs[j].batch :
          \E fetched \in CycleFetched(tracking) : \E delivery \in SendOutcomes(tracking, fetched) :
              CheckSingleStock(j, tracking, fetched, delivery)
    \/ \E j \in DOMAIN jobs : \E tracking \in jobs[j].batch : CheckRaises(j, tracking)

NextCycle ==
    \/ now < MaxCycleTicks * DEFAULT_CHECK_INTERVAL /\ Tick
    \/ CycleStep

SpecCycle == InitCycle /\ [][NextCycle]_vars

\* the event loop runs every coroutine that can continue: a fetch returns or
\* times out, a sleep ends
FairCycle == SpecCycle /\ WF_vars(CycleStep)

\* ------------------------------------------------------ alerts and delivery
\* changes-mode trackings whose pages were fingerprinted by an earlier run;
\* every fetch succeeds, one cycle runs at a time, and a delivery fails only
\* while no alert of the tracking has been lost: whatever is sent after a
\* lost alert arrives
InitAlerts ==
    /\ now = 0
    /\ trackings = [t \in Ids |-> ProductTracking("u1", CycleUrls[t], "changes", ACTIVE, 0, 1, Date(Past))]
    /\ notifications_enabled = [u \in AllUsers |-> TRUE]
    /\ jobs = <<>>
    /\ alert = [t \in Ids |-> "none"]
    /\ consecutive_failures = [t \in Ids |-> 0]
    /\ stock_run = [t \in Ids |-> NoRun]
    /\ user_stats = [u \in AllUsers |-> UserStats(Cardinality(Owned(trackings, u)))]
    /\ pending_track = [u \in AllUsers |-> NoPending]
    /\ conversation = NoConversation
    /\ blocked_bot = [u \in AllUsers |-> FALSE]
    /\ rate_limit_cache = [u \in AllUsers |-> <<>>]
    /\ admitted = [u \in AllUsers |-> <<>>]
    /\ scrape = NoCall

\* the pages change while the clock of the model runs and stay as they are
\* from then on
AlertFetched(tracking) ==
    {page \in Fetched(tracking) :
        /\ ~page.error
        /\ now >= MaxTicks * DEFAULT_CHECK_INTERVAL => page.hash = tracking.last_page_hash}

AlertDeliveries(tracking, fetched) ==
    IF alert[tracking.id] = "lost"
    THEN SendOutcomes(tracking, fetched) \ {"forbidden", "failed"}
    ELSE SendOutcomes(tracking, fetched)

AlertTick == jobs = <<>> /\ Tick

\* the interval trigger goes on firing after the clock of the model has
\* reached its bound: the clock stays, and every last_checked moves one
\* interval into the past instead; a date two intervals old or older is due
\* like any older one
Aged(coll, utcnow) ==
    [t \in Ids |->
        IF Exists(coll[t]) /\ coll[t].last_checked.kind = "date"
        THEN LET at == coll[t].last_checked.at - DEFAULT_CHECK_INTERVAL
                 oldest == utcnow - 2 * DEFAULT_CHECK_INTERVAL
             IN [coll[t] EXCEPT !.last_checked = Date(IF at < oldest THEN oldest ELSE at)]
        ELSE coll[t]]

LaterTick ==
    /\ jobs = <<>>
    /\ now >= MaxTicks * DEFAULT_CHECK_INTERVAL
    /\ now' = now
    /\ trackings' = Aged(trackings, now)
    /\ LET job == CheckAllStocks(trackings', now)
       IN jobs' = IF job = IdleJob THEN jobs ELSE Append(jobs, job)
    /\ UNCHANGED <<notifications_enabled, alert, consecutive_failures, stock_run, ownerVars,
                   scraperVars, blocked_bot, conversation, limiterVars>>

RecurringTick == AlertTick \/ LaterTick

AlertStep ==
    \/ \E j \in DOMAIN jobs : BatchDelay(j)
    \/ \E j \in DOMAIN jobs : \E tracking \in jobs[j].batch :
          \E fetched \in AlertFetched(tracking) : \E delivery \in AlertDeliveries(tracking, fetched) :
              CheckSingleStock(j, tracking, fetched, delivery)

NextAlerts ==
    \/ RecurringTick
    \/ AlertStep

SpecAlerts == InitAlerts /\ [][NextAlerts]_vars

\* the interval trigger fires again and again, and the event loop runs
\* every coroutine that can continue
FairAlerts == SpecAlerts /\ WF_vars(RecurringTick) /\ WF_vars(AlertStep)

\* ------------------------------------------------------ stock-mode trackings
\* legacy stock-mode trackings stored by an earlier run and due; every fetch
\* succeeds, and the page of a tracking stored as out of stock is in stock
\* when it is fetched again; the owner may resume a tracking while the
\* clock of the model runs
InitStock ==
    /\ now = 0
    /\ trackings = [t \in Ids |-> ProductTracking("u1", CycleUrls[t], "stock", ACTIVE, 0, NoHash, Date(Past))]
    /\ notifications_enabled = [u \in AllUsers |-> TRUE]
    /\ jobs = <<>>
    /\ alert = [t \in Ids |-> "none"]
    /\ consecutive_failures = [t \in Ids |-> 0]
    /\ stock_run = [t \in Ids |-> NoRun]
    /\ user_stats = [u \in AllUsers |-> UserStats(Cardinality(Owned(trackings, u)))]
    /\ pending_track = [u \in AllUsers |-> NoPending]
    /\ conversation = NoConversation
    /\ blocked_bot = [u \in AllUsers |-> FALSE]
    /\ rate_limit_cache = [u \in AllUsers |-> <<>>]
    /\ admitted = [u \in AllUsers |-> <<>>]
    /\ scrape = NoCall

StockFetched(tracking) ==
    IF trackings[tracking.id].status = OUT_OF_STOCK THEN {"True"} ELSE {"True", "False"}

StockStep ==
    \/ \E j \in DOMAIN jobs : BatchDelay(j)
    \/ \E j \in DOMAIN jobs : \E tracking \in jobs[j].batch :
          \E fetched \in StockFetched(tracking) : \E delivery \in SendOutcomes(tracking, fetched) :
              CheckSingleStock(j, tracking, fetched, delivery)

NextStock ==
    \/ RecurringTick
    \/ StockStep
    \/ \E t \in Ids :
          /\ now < MaxTicks * DEFAULT_CHECK_INTERVAL
          /\ trackings[t].status # ACTIVE
          /\ HandleResumeTracking(t)

SpecStock == InitStock /\ [][NextStock]_vars

\* the interval trigger fires again and again, and the event loop runs
\* every coroutine that can continue
FairStock == SpecStock /\ WF_vars(RecurringTick) /\ WF_vars(StockStep)

\* ------------------------------------------------------- chosen intervals
\* trackings that are due, whose owner chooses check intervals while the
\* cycles run one at a time
NextIntervals ==
    \/ AlertTick
    \/ CycleStep
    \/ \E t \in Ids, frequency \in Frequencies :
          HandleFrequencySelection(t, frequency) /\ UNCHANGED conversation

SpecIntervals == InitAlerts /\ [][NextIntervals]_vars

\* ------------------------------------------------------- a full selection
\* a store with more due trackings than one selection takes: the limit of
\* the query is SmallPage here, and the SmallPage trackings inserted first
\* have a store id that SUPPORTED_CLUBS does not know, so that their checks
\* return at once; the owner may pause and resume trackings. The clock of
\* the model stops at its bound and the cycles go on: a tracking checked
\* then is not due again, which leaves the selection to the others
UnknownStore(t) == t <= SmallPage

SmallTick ==
    /\ jobs = <<>>
    /\ now' = IF now < MaxTicks * DEFAULT_CHECK_INTERVAL
              THEN now + DEFAULT_CHECK_INTERVAL ELSE now
    /\ LET found == FindLimit(trackings, now', DEFAULT_CHECK_INTERVAL, SmallPage)
       IN jobs' = IF Len(found) = 0 THEN jobs ELSE Append(jobs, StartBatch(found))
    /\ UNCHANGED <<trackings, notifications_enabled, alert, consecutive_failures, stock_run,
                   ownerVars, scraperVars, blocked_bot, conversation, limiterVars>>

SmallStep ==
    \/ \E j \in DOMAIN jobs : BatchDelay(j)
    \/ \E j \in DOMAIN jobs : \E tracking \in jobs[j].batch :
          /\ ~UnknownStore(tracking.id)
          /\ \E fetched \in Fetched(tracking) : \E delivery \in SendOutcomes(tracking, fetched) :
                CheckSingleStock(j, tracking, fetched, delivery)
    \/ \E j \in DOMAIN jobs : \E tracking \in jobs[j].batch :
          UnknownStore(tracking.id) /\ CheckRaises(j, tracking)

NextSmall ==
    \/ SmallTick
    \/ SmallStep
    \/ \E t \in Ids : trackings[t].status = ACTIVE /\ HandlePauseTracking(t)
    \/ \E t \in Ids : trackings[t].status = PAUSED /\ HandleResumeTracking(t)

SpecSmall == InitAlerts /\ [][NextSmall]_vars

\* the interval trigger fires while the clock of the model runs, and the
\* event loop runs every coroutine that can continue
FairSmall == SpecSmall /\ WF_vars(SmallTick) /\ WF_vars(SmallStep)

\* ------------------------------------------------------------ rate limit
\* the 'Clean old entries' comprehension without its condition
Recent_KeepsAll(timestamps, utcnow) == timestamps

\* the 'Clean old entries' comprehension of _check_rate_limit
Recent(timestamps, utcnow) ==
    SelectSeq(timestamps, LAMBDA timestamp : timestamp > utcnow - RATE_LIMIT_WINDOW)

\* the value _check_rate_limit returns
CheckRateLimitResult(cache, user_id, utcnow) ==
    ~(Len(Recent(cache[user_id], utcnow)) >= RATE_LIMIT_PER_USER)

\* self.rate_limit_cache after the call
CheckRateLimitCache(cache, user_id, utcnow) ==
    LET recent == Recent(cache[user_id], utcnow)
    IN [cache EXCEPT ![user_id] =
          IF Len(recent) >= RATE_LIMIT_PER_USER THEN recent ELSE Append(recent, utcnow)]

\* _check_rate_limit: the coroutine has no await, so a call is one step
CheckRateLimit(user_id) ==
    /\ rate_limit_cache' = CheckRateLimitCache(rate_limit_cache, user_id, now)
    /\ admitted' = IF CheckRateLimitResult(rate_limit_cache, user_id, now)
                   THEN [admitted EXCEPT ![user_id] = Append(@, now)]
                   ELSE admitted

\* a handler that asks the limiter and does nothing else to the state
LimitedRequest(user_id) ==
    /\ CheckRateLimit(user_id)
    /\ UNCHANGED <<now, trackings, notifications_enabled, jobs, alert, consecutive_failures,
                   stock_run, ownerVars, scraperVars, conversation, blocked_bot>>

\* datetime.utcnow() moves on; the clock counts seconds here
ClockTick ==
    /\ now < MaxClock
    /\ now' = now + 1
    /\ UNCHANGED <<trackings, notifications_enabled, jobs, alert, consecutive_failures,
                   stock_run, ownerVars, scraperVars, conversation, blocked_bot, limiterVars>>

InitLimiter ==
    /\ now = 0
    /\ trackings = [t \in Ids |-> NoDoc]
    /\ notifications_enabled = [u \in AllUsers |-> TRUE]
    /\ jobs = <<>>
    /\ alert = [t \in Ids |-> "none"]
    /\ consecutive_failures = [t \in Ids |-> 0]
    /\ stock_run = [t \in Ids |-> NoRun]
    /\ user_stats = [u \in AllUsers |-> UserStats(0)]
    /\ pending_track = [u \in AllUsers |-> NoPending]
    /\ conversation = NoConversation
    /\ blocked_bot = [u \in AllUsers |-> FALSE]
    /\ rate_limit_cache = [u \in AllUsers |-> <<>>]
    /\ admitted = [u \in AllUsers |-> <<>>]
    /\ scrape = NoCall

NextLimiter ==
    \/ \E u \in AllUsers : LimitedRequest(u)
    \/ ClockTick

SpecLimiter == InitLimiter /\ [][NextLimiter]_vars

\* ------------------------------------------------ the add-tracking dialogue
\* ConversationHandler.handle_update: the state a callback returns is
\* stored, and an exception that leaves the callback leaves the state
Stored(state, returned) == IF returned = Raises THEN state ELSE returned

\* the conversation after a text that starts with http:// or https://: with
\* no conversation it is an entry point, in WAITING_FOR_URL it is the
\* state's text handler, and in the two other states no handler of the
\* conversation takes it and handle_generic_message calls handle_url_input
AfterUrlMessage(conv, coll, u, url, lookup, options, reply) ==
    IF conv[u] \in {END, WAITING_FOR_URL}
    THEN [conv EXCEPT ![u] = Stored(@, UrlInputReturn(coll, u, url, lookup, options, reply))]
    ELSE conv

UrlMessage(u, url, lookup, options, exact, reply) ==
    /\ HandleUrlInput(u, url, lookup, options, exact)
    /\ conversation' = AfterUrlMessage(conversation, trackings, u, url, lookup, options, reply)

\* the add-tracking button: add_tracking_start
AddTrackingStart(u) ==
    /\ conversation[u] = END
    /\ CheckRateLimit(u)
    /\ conversation' = [conversation EXCEPT ![u] =
          IF CheckRateLimitResult(rate_limit_cache, u, now) THEN WAITING_FOR_URL ELSE END]
    /\ UNCHANGED <<now, trackings, notifications_enabled, jobs, alert, consecutive_failures,
                   stock_run, ownerVars, scraperVars, blocked_bot>>

\* an opt_ button: handle_option_selection
OptionCallback(u, exact, reply) ==
    /\ conversation[u] = WAITING_FOR_OPTION
    /\ HandleOptionSelection(u, exact)
    /\ conversation' = [conversation EXCEPT ![u] = IF reply = "sent" THEN SETTING_FREQUENCY ELSE END]

\* a freq_ button: handle_frequency_selection
FrequencyCallback(u, t, frequency) ==
    /\ conversation[u] = SETTING_FREQUENCY
    /\ HandleFrequencySelection(t, frequency)
    /\ conversation' = [conversation EXCEPT ![u] = END]

\* /cancel or the back button: cancel_conversation
CancelConversation(u, reply) ==
    /\ conversation[u] # END
    /\ conversation' = [conversation EXCEPT ![u] = Stored(@, IF reply = "sent" THEN END ELSE Raises)]
    /\ UNCHANGED <<now, trackings, notifications_enabled, jobs, alert, consecutive_failures,
                   stock_run, ownerVars, scraperVars, blocked_bot, limiterVars>>

InitConversation ==
    /\ now = 0
    /\ trackings = [t \in Ids |-> NoDoc]
    /\ notifications_enabled = [u \in AllUsers |-> TRUE]
    /\ jobs = <<>>
    /\ alert = [t \in Ids |-> "none"]
    /\ consecutive_failures = [t \in Ids |-> 0]
    /\ stock_run = [t \in Ids |-> NoRun]
    /\ user_stats = [u \in AllUsers |-> UserStats(0)]
    /\ pending_track = [u \in AllUsers |-> NoPending]
    /\ conversation = NoConversation
    /\ blocked_bot = [u \in AllUsers |-> FALSE]
    /\ rate_limit_cache = [u \in AllUsers |-> <<>>]
    /\ admitted = [u \in AllUsers |-> <<>>]
    /\ scrape = NoCall

NextConversation ==
    \/ \E u \in Users, url \in AllUrls, lookup \in Lookups, options \in BOOLEAN,
          exact \in BOOLEAN, reply \in Replies :
          UrlMessage(u, url, lookup, options, exact, reply)
    \/ \E u \in Users : AddTrackingStart(u)
    \/ \E u \in Users, exact \in BOOLEAN, reply \in Replies : OptionCallback(u, exact, reply)
    \/ \E u \in Users, t \in Ids : FrequencyCallback(u, t, DEFAULT_CHECK_INTERVAL)
    \/ \E u \in Users : \E reply \in Replies : CancelConversation(u, reply)

SpecConversation == InitConversation /\ [][NextConversation]_vars

\* ------------------------------------------------------- owners and creation
\* two owners who add and remove trackings on an empty store; no poll cycle
\* runs
InitOwners ==
    /\ now = 0
    /\ trackings = [t \in Ids |-> NoDoc]
    /\ notifications_enabled = [u \in AllUsers |-> TRUE]
    /\ jobs = <<>>
    /\ alert = [t \in Ids |-> "none"]
    /\ consecutive_failures = [t \in Ids |-> 0]
    /\ stock_run = [t \in Ids |-> NoRun]
    /\ user_stats = [u \in AllUsers |-> UserStats(0)]
    /\ pending_track = [u \in AllUsers |-> NoPending]
    /\ conversation = NoConversation
    /\ blocked_bot = [u \in AllUsers |-> FALSE]
    /\ rate_limit_cache = [u \in AllUsers |-> <<>>]
    /\ admitted = [u \in AllUsers |-> <<>>]
    /\ scrape = NoCall

NextOwners ==
    \/ \E u \in AllUsers, t \in Ids : HandleRemoveTracking(u, t)
    \/ \E u \in AllUsers, url \in AllUrls, options \in BOOLEAN, exact \in BOOLEAN :
          HandleUrlInput(u, url, "named", options, exact) /\ UNCHANGED conversation
    \/ \E u \in AllUsers, exact \in BOOLEAN :
          HandleOptionSelection(u, exact) /\ UNCHANGED conversation

SpecOwners == InitOwners /\ [][NextOwners]_vars

\* ------------------------------------------------- two owners of one page
\* both owners track the same product page, or the second owner is about to
\* add it; the first owner's document is one failed poll away from ERROR, or
\* an earlier run left it in ERROR; the second owner's was never checked
SharedStore ==
    [t \in Ids |->
        IF t = 1 THEN ProductTracking("u1", "url1", "changes", ACTIVE, ERROR_THRESHOLD - 1, 1, Date(Past))
        ELSE IF t = 2 THEN ProductTracking("u2", "url1", "changes", ACTIVE, 0, NoHash, NoField)
        ELSE NoDoc]

InitShared ==
    /\ now = 0
    /\ trackings \in {SharedStore, [SharedStore EXCEPT ![2] = NoDoc],
                     [SharedStore EXCEPT ![1].status = ERROR, ![1].error_count = ERROR_THRESHOLD]}
    /\ notifications_enabled = [u \in AllUsers |-> TRUE]
    /\ jobs = <<>>
    /\ alert = [t \in Ids |-> "none"]
    /\ consecutive_failures = [t \in Ids |-> IF ~Exists(trackings[t]) THEN 0 ELSE trackings[t].error_count]
    /\ stock_run = [t \in Ids |-> NoRun]
    /\ user_stats = [u \in AllUsers |-> UserStats(Cardinality(Owned(trackings, u)))]
    /\ pending_track = [u \in AllUsers |-> NoPending]
    /\ conversation = NoConversation
    /\ blocked_bot = [u \in AllUsers |-> FALSE]
    /\ rate_limit_cache = [u \in AllUsers |-> <<>>]
    /\ admitted = [u \in AllUsers |-> <<>>]
    /\ scrape = NoCall

\* the poll cycle, and the owners' buttons and messages about the page; a
\* cycle over these few trackings is over long before the next one is due
NextShared ==
    \/ now < MaxCycleTicks * DEFAULT_CHECK_INTERVAL /\ jobs = <<>> /\ Tick
    \/ CycleStep
    \/ \E t \in Ids : HandlePauseTracking(t)
    \/ \E t \in Ids : HandleResumeTracking(t)
    \/ \E u \in AllUsers, t \in Ids : HandleRemoveTracking(u, t)
    \/ \E u \in AllUsers :
          HandleUrlInput(u, "url1", "named", FALSE, FALSE) /\ UNCHANGED conversation

SpecShared == InitShared /\ [][NextShared]_vars

\* ------------------------------------------------------------------ steps
\* a check of tracking t writes its outcome
PollOf(t, failed) ==
    \E j \in DOMAIN jobs : \E tracking \in jobs[j].batch :
        \E fetched \in Fetched(tracking), delivery \in Deliveries :
            /\ tracking.id = t
            /\ CheckOutcome(tracking, fetched).failed = failed
            /\ CheckSingleStock(j, tracking, fetched, delivery)

\* a check of tracking t that decides not to alert writes its outcome
QuietPollOf(t) ==
    \E j \in DOMAIN jobs : \E tracking \in jobs[j].batch :
        \E fetched \in Fetched(tracking), delivery \in Deliveries :
            /\ tracking.id = t
            /\ ~CheckOutcome(tracking, fetched).notify
            /\ CheckSingleStock(j, tracking, fetched, delivery)

\* handle_url_input revives tracking t
ReviveOf(t) ==
    \E u \in AllUsers, url \in AllUrls, options \in BOOLEAN, exact \in BOOLEAN :
        /\ t \in Existing(trackings, u, url)
        /\ trackings[t].status = ERROR
        /\ \A y \in Existing(trackings, u, url) : t <= y
        /\ HandleUrlInput(u, url, "named", options, exact)

Stays(t) == Exists(trackings[t]) /\ Exists(trackings'[t])

\* ------------------------------------------------------------------ claims
\* C1: error_count increases only as the effect of a failed poll of that
\* tracking, by exactly 1, and is set back to 0 only by a successful poll of
\* that tracking or the revive of an ERROR item; pause, resume and frequency
\* selection do not change it.
C1_ErrorCountDiscipline ==
    [][\A t \in Ids : Stays(t) =>
        /\ trackings'[t].error_count > trackings[t].error_count =>
              /\ PollOf(t, TRUE)
              /\ trackings'[t].error_count = trackings[t].error_count + 1
        /\ trackings'[t].error_count < trackings[t].error_count =>
              /\ PollOf(t, FALSE) \/ ReviveOf(t)
              /\ trackings'[t].error_count = 0
        /\ ( \/ HandlePauseTracking(t)
             \/ HandleResumeTracking(t)
             \/ \E frequency \in Frequencies : HandleFrequencySelection(t, frequency) )
              => trackings'[t].error_count = trackings[t].error_count]_vars

\* C2: in every reachable state a tracking's status is ERROR if and only if
\* its error_count is at least 5.
C2_ErrorIffThreshold ==
    \A t \in Ids : Exists(trackings[t]) =>
        (trackings[t].status = ERROR <=> trackings[t].error_count >= ERROR_THRESHOLD)

C2_Witness ==
    \E t \in Ids : /\ Exists(trackings[t])
                   /\ trackings[t].status = ERROR
                   /\ trackings[t].error_count = ERROR_THRESHOLD

\* C3: while the polls of a tracking fail consecutively, the 1st to 4th
\* failure leave its status unchanged and the 5th makes it ERROR.
C3_ErrorExactlyAtFifthFailure ==
    [][\A t \in Ids : (Stays(t) /\ PollOf(t, TRUE)) =>
        IF consecutive_failures'[t] < ERROR_THRESHOLD
        THEN trackings'[t].status = trackings[t].status
        ELSE trackings'[t].status = ERROR]_vars

\* C4: once a tracking is ERROR it stays ERROR until an owner action (pause,
\* resume, revive, remove) is applied to it; no poll write moves it out.
C4_ErrorIsSticky ==
    [][\A t \in Ids :
        (Stays(t) /\ trackings[t].status = ERROR /\ trackings'[t].status # ERROR) =>
            (HandlePauseTracking(t) \/ HandleResumeTracking(t) \/ ReviveOf(t))]_vars

\* C5: in stock mode, a poll that finds the page in stock while the stored
\* status is OUT_OF_STOCK and notification_sent is false sets IN_STOCK,
\* notification_sent = true, error_count = 0 and calls the notifier.
C5_BackInStockAlerts ==
    [][\A j \in DOMAIN jobs : \A tracking \in jobs[j].batch : \A delivery \in Deliveries :
        ( /\ tracking.tracking_mode = "stock"
          /\ Stays(tracking.id)
          /\ trackings[tracking.id].status = OUT_OF_STOCK
          /\ ~trackings[tracking.id].notification_sent
          /\ CheckSingleStock(j, tracking, "True", delivery) ) =>
            /\ trackings'[tracking.id].status = IN_STOCK
            /\ trackings'[tracking.id].notification_sent
            /\ trackings'[tracking.id].error_count = 0
            /\ alert'[tracking.id] # "none"]_vars

\* C6: in stock mode at most one alert is emitted per run of consecutive
\* in-stock results that follows an out-of-stock result, and a further poll
\* that is still in stock leaves the status IN_STOCK and emits no alert.
C6_OneAlertPerRun ==
    /\ [](\A t \in Ids : stock_run[t].alerts <= 1)
    /\ [][\A j \in DOMAIN jobs : \A tracking \in jobs[j].batch : \A delivery \in Deliveries :
            ( /\ tracking.tracking_mode = "stock"
              /\ Stays(tracking.id)
              /\ stock_run[tracking.id].result = "in"
              /\ CheckSingleStock(j, tracking, "True", delivery) ) =>
                /\ trackings'[tracking.id].status = IN_STOCK
                /\ alert'[tracking.id] = "none"]_vars

C6_Witness ==
    \E t \in Ids : /\ Exists(trackings[t])
                   /\ trackings[t].status = IN_STOCK
                   /\ stock_run[t].result = "in"
                   /\ stock_run[t].after_out
                   /\ stock_run[t].in_polls >= 2

\* C7: in changes mode the first successful check of a tracking (no stored
\* fingerprint) stores the fingerprint as the baseline, emits no alert, does
\* not set notification_sent and does not increment change_count.
C7_FirstCheckSeedsBaseline ==
    [][\A j \in DOMAIN jobs : \A tracking \in jobs[j].batch :
        \A fetched \in PageResults, delivery \in Deliveries :
        ( /\ tracking.tracking_mode = "changes"
          /\ ~fetched.error
          /\ Stays(tracking.id)
          /\ trackings[tracking.id].last_page_hash = NoHash
          /\ CheckSingleStock(j, tracking, fetched, delivery) ) =>
            /\ trackings'[tracking.id].last_page_hash = fetched.hash
            /\ ~trackings'[tracking.id].notification_sent
            /\ trackings'[tracking.id].change_count = trackings[tracking.id].change_count
            /\ alert'[tracking.id] = "none"]_vars

C7_Witness ==
    \E t \in Ids : /\ Exists(trackings[t])
                   /\ trackings[t].tracking_mode = "changes"
                   /\ trackings[t].last_page_hash > 1
                   /\ trackings[t].change_count = 0
                   /\ trackings[t].status = ACTIVE
                   /\ ~trackings[t].notification_sent

\* C8: in changes mode a successful check after the first whose fingerprint
\* differs from the stored one emits an alert (the notifier is called), stores
\* the new fingerprint and increments change_count by one; a check whose
\* fingerprint equals the stored one emits no alert and leaves change_count
\* unchanged.
C8_EveryChangeAlerts ==
    [][\A j \in DOMAIN jobs : \A tracking \in jobs[j].batch :
        \A fetched \in PageResults, delivery \in Deliveries :
        ( /\ tracking.tracking_mode = "changes"
          /\ ~fetched.error
          /\ Stays(tracking.id)
          /\ trackings[tracking.id].last_page_hash # NoHash
          /\ CheckSingleStock(j, tracking, fetched, delivery) ) =>
            IF fetched.hash # trackings[tracking.id].last_page_hash
            THEN /\ alert'[tracking.id] # "none"
                 /\ trackings'[tracking.id].last_page_hash = fetched.hash
                 /\ trackings'[tracking.id].change_count = trackings[tracking.id].change_count + 1
            ELSE /\ alert'[tracking.id] = "none"
                 /\ trackings'[tracking.id].change_count = trackings[tracking.id].change_count]_vars

\* C9: notification_sent is true only when the update that set it was
\* accompanied by an alert that reached the owner.
C9_FlagImpliesAlertSent ==
    \A t \in Ids :
        (Exists(trackings[t]) /\ trackings[t].notification_sent) => alert[t] = "sent"

\* C10: a non-alerting successful poll, a failed poll, a pause, a resume and
\* a revive each write notification_sent = false.
C10_QuietUpdateClearsFlag ==
    [][\A t \in Ids :
        ( /\ Stays(t)
          /\ \/ QuietPollOf(t)
             \/ HandlePauseTracking(t)
             \/ HandleResumeTracking(t)
             \/ ReviveOf(t) ) => ~trackings'[t].notification_sent]_vars

C10_Witness ==
    \E t \in Ids : /\ Exists(trackings[t])
                   /\ trackings[t].change_count >= 1
                   /\ ~trackings[t].notification_sent

\* C11: a failed poll leaves the stored fingerprint, change_count and the
\* availability-derived status (IN_STOCK, OUT_OF_STOCK) unchanged; besides
\* error_count and last_checked it changes such a status only to ERROR, at
\* the threshold (the flag notification_sent, cleared by every quiet update,
\* is C10's subject).
C11_FailedPollFrame ==
    [][\A t \in Ids : (Stays(t) /\ PollOf(t, TRUE)) =>
        /\ trackings'[t].last_page_hash = trackings[t].last_page_hash
        /\ trackings'[t].change_count = trackings[t].change_count
        /\ trackings'[t].check_interval = trackings[t].check_interval
        /\ trackings'[t].tracking_mode = trackings[t].tracking_mode
        /\ trackings[t].status \in {IN_STOCK, OUT_OF_STOCK} =>
              \/ trackings'[t].status = trackings[t].status
              \/ /\ trackings'[t].status = ERROR
                 /\ trackings'[t].error_count >= ERROR_THRESHOLD]_vars

\* C12: at most one poll cycle runs at a time.
C12_OneCycleAtATime ==
    Len(jobs) <= 1

\* the trackings a running cycle still has to check
Pending(job) == job.batch \cup {job.todo[k] : k \in 1..Len(job.todo)}

\* a step that neither starts nor ends a cycle
SameCycles == Len(jobs') = Len(jobs)

C14_SleepBetweenBatches ==
    [][\A j \in DOMAIN jobs : SameCycles =>
        /\ jobs[j].phase = "batch" =>
              /\ jobs'[j].i = jobs[j].i
              /\ jobs'[j].todo = jobs[j].todo
              /\ jobs'[j].phase = (IF jobs'[j].batch = {} THEN "sleep" ELSE "batch")
        /\ jobs'[j].i # jobs[j].i => jobs[j].phase = "sleep"]_vars

C14_Witness ==
    \E j \in DOMAIN jobs : jobs[j].phase = "batch" /\ jobs[j].i > 0

\* C15: when the check of one item fails or raises, the other items of the
\* cycle stay to be checked: an item leaves a cycle only by its own check, a
\* cycle ends only when none of its items is left, and every cycle ends.
C15_CheckIsIsolated ==
    /\ [][\A j \in DOMAIN jobs : \A tracking \in jobs[j].batch :
            ( \/ CheckRaises(j, tracking)
              \/ \E fetched \in Fetched(tracking), delivery \in Deliveries :
                    /\ CheckOutcome(tracking, fetched).failed
                    /\ CheckSingleStock(j, tracking, fetched, delivery) )
              => ( /\ SameCycles
                   /\ Pending(jobs'[j]) = Pending(jobs[j]) \ {tracking} )]_vars
    /\ [][Len(jobs') < Len(jobs) =>
            \E j \in DOMAIN jobs : jobs' = RemoveAt(jobs, j) /\ Pending(jobs[j]) = {}]_vars
    /\ <>[](jobs = <<>>)

C15_Witness ==
    /\ jobs = <<>>
    /\ \E t1, t2 \in Ids :
          /\ trackings[t1].error_count = 1
          /\ trackings[t2].error_count = 0
          /\ trackings[t2].last_checked = Date(now)
          /\ trackings[t1].last_checked = Date(now)

\* the items of the cycle a firing of the interval job has started, if any
Selected ==
    IF Len(jobs') > Len(jobs) THEN Pending(jobs'[Len(jobs')]) ELSE {}

\* C16: a check that raises is recorded as the item's poll failure: its
\* error_count is incremented by one and its last_checked is updated.
C16_RaisedCheckIsRecorded ==
    [][\A j \in DOMAIN jobs : \A tracking \in jobs[j].batch :
        (Stays(tracking.id) /\ CheckRaises(j, tracking)) =>
            /\ trackings'[tracking.id].error_count = trackings[tracking.id].error_count + 1
            /\ trackings'[tracking.id].last_checked = Date(now)]_vars

C18_NewTrackingIsSelected ==
    [][(Tick /\ Len(jobs) < max_instances) =>
        \A t \in Ids :
            ( /\ Exists(trackings[t])
              /\ trackings[t].status = ACTIVE
              /\ trackings[t].last_checked \in {NoField, Null} )
            => \E tracking \in Selected : tracking.id = t]_vars

\* C19: a PAUSED tracking stays PAUSED until its owner resumes it, whatever
\* the outcome of any poll, a check already in flight included.
C19_PausedStaysPaused ==
    [][\A t \in Ids :
        (Stays(t) /\ trackings[t].status = PAUSED /\ trackings'[t].status # PAUSED)
            => HandleResumeTracking(t)]_vars

\* C20: the poll-outcome update of a check whose tracking was removed while
\* the check was in flight changes nothing in the trackings collection: the
\* tracking is not created again and no other tracking is modified.
C20_UpdateOfRemovedIsNoOp ==
    [][\A j \in DOMAIN jobs : \A tracking \in jobs[j].batch :
        ~Exists(trackings[tracking.id]) =>
            \A fetched \in Fetched(tracking), delivery \in Deliveries :
                CheckSingleStock(j, tracking, fetched, delivery) => trackings' = trackings]_vars

C20_Witness ==
    \E t \in Ids : trackings[t] = Deleted /\ alert[t] # "none"

C22_OnePerOwnerAndKey ==
    \A t1 \in Ids, t2 \in Ids :
        (/\ t1 # t2
         /\ Exists(trackings[t1])
         /\ Exists(trackings[t2])
         /\ trackings[t1].user_id = trackings[t2].user_id)
            => /\ trackings[t1].product_url # trackings[t2].product_url
               /\ GetProductKey(trackings[t1].product_url) # NoKey
                    => GetProductKey(trackings[t1].product_url) # GetProductKey(trackings[t2].product_url)

\* the trackings of the same product page held by two different owners
SharedPairs ==
    {p \in Ids \X Ids : /\ Exists(trackings[p[1]])
                        /\ Exists(trackings[p[2]])
                        /\ trackings[p[1]].user_id # trackings[p[2]].user_id
                        /\ trackings[p[1]].product_url = trackings[p[2]].product_url}

\* an operation on tracking t: a written poll outcome, pause, resume, revive
\* or removal
AppliedTo(t) ==
    \/ \E j \in DOMAIN jobs : \E tracking \in jobs[j].batch :
          \E fetched \in CycleFetched(tracking) : \E delivery \in SendOutcomes(tracking, fetched) :
              tracking.id = t /\ CheckSingleStock(j, tracking, fetched, delivery)
    \/ HandlePauseTracking(t)
    \/ HandleResumeTracking(t)
    \/ ReviveOf(t)
    \/ \E u \in AllUsers : HandleRemoveTracking(u, t)

\* C23: when two different owners track the identical product URL, two
\* separate trackings exist (the second owner's request adds a document of
\* its own), and any poll outcome, pause, resume, revive or removal applied
\* to one owner's tracking leaves the other owner's tracking unchanged.
C23_OwnersAreIndependent ==
    /\ [][\A u \in AllUsers :
            (/\ Existing(trackings, u, "url1") = {}
             /\ HandleUrlInput(u, "url1", "named", FALSE, FALSE))
                => \E t \in Ids : /\ trackings[t] = NoDoc
                                  /\ Exists(trackings'[t])
                                  /\ trackings'[t].user_id = u
                                  /\ \A x \in Ids \ {t} : trackings'[x] = trackings[x]]_vars
    /\ [][\A p \in SharedPairs :
            trackings'[p[2]] # trackings[p[2]] => ~AppliedTo(p[1])]_vars

\* both owners hold a tracking of the page, the second owner's added on
\* request, and the first owner's has met the error threshold
C23_Witness ==
    /\ <<1, 2>> \in SharedPairs
    /\ trackings[1].status = ERROR
    /\ trackings[2].last_checked = Null
    /\ trackings[2].status = ACTIVE

\* owner u's request to track the address: the message that carries it, or
\* the choice of a purchase option that completes it
CreateOf(u, url) ==
    \/ \E options \in BOOLEAN, exact \in BOOLEAN : HandleUrlInput(u, url, "named", options, exact)
    \/ pending_track[u] = url /\ \E exact \in BOOLEAN : HandleOptionSelection(u, exact)

\* C24: a create-tracking request for an (owner, URL or key) pair that
\* already has a tracking that is not in ERROR creates no document and leaves
\* every field of the stored documents as it is.
C24_DuplicateCreateIsNoOp ==
    [][\A u \in AllUsers, url \in AllUrls :
          (/\ \E t \in Existing(trackings, u, url) : trackings[t].status # ERROR
           /\ CreateOf(u, url))
              => trackings' = trackings]_vars

Transports == {"playwright", "http"}

Other(transport) == IF transport = "playwright" THEN "http" ELSE "playwright"

\* what one call of _scrape_with_playwright / _scrape_with_http gives to
\* get_product_info: it raises, or it returns a ProductInfo with an
\* error_message (timeout, HTTP status), with the placeholder name, or with a
\* name that an extraction stage found
Outcomes == {"raise", "error", "placeholder", "named"}

\* the calls of get_product_info: the store is known or not, its adapter's
\* requires_js flag, and what each transport would give
GetProductInfoCalls ==
    [op : {"get_product_info"}, pc : {"call"}, known : BOOLEAN, requires_js : BOOLEAN,
     gives : [Transports -> Outcomes], attempts : {<<>>}, result : {"pending"}]

\* a test that takes a result with the placeholder name as final
Usable_AcceptsPlaceholder(first_result) == first_result \in {"named", "placeholder"}

\* the test that ends get_product_info after the first attempt
Usable(first_result) == first_result = "named"

\* get_product_info up to the end of the first attempt
GetProductInfoPrimary ==
    /\ scrape.op = "get_product_info"
    /\ scrape.pc = "call"
    /\ scrape' =
         IF ~scrape.known
         THEN [scrape EXCEPT !.pc = "return", !.result = "None"]
         ELSE LET primary == IF scrape.requires_js THEN "playwright" ELSE "http"
                  first_result == scrape.gives[primary]
              IN [scrape EXCEPT !.attempts = <<primary>>,
                                !.pc = IF Usable(first_result) THEN "return" ELSE "fallback",
                                !.result = IF Usable(first_result) THEN first_result ELSE @]
    /\ UNCHANGED <<now, trackings, notifications_enabled, jobs, alert, consecutive_failures, stock_run, ownerVars, blocked_bot, conversation, limiterVars>>

\* the second attempt of get_product_info: whatever the other transport
\* returns is returned, and an exception becomes an error result
GetProductInfoFallback ==
    /\ scrape.op = "get_product_info"
    /\ scrape.pc = "fallback"
    /\ LET fallback == Other(scrape.attempts[1])
           second == scrape.gives[fallback]
       IN scrape' = [scrape EXCEPT !.attempts = Append(@, fallback),
                                   !.pc = "return",
                                   !.result = IF second = "raise" THEN "error" ELSE second]
    /\ UNCHANGED <<now, trackings, notifications_enabled, jobs, alert, consecutive_failures, stock_run, ownerVars, blocked_bot, conversation, limiterVars>>

\* the state of self.browser / self.session when a transport is entered:
\* never initialised, usable, or closed
Connections == {"none", "alive", "closed"}

\* the calls of a transport: the full scrape or the quick check, the state of
\* its browser or session, and whether init_browser / init_session succeeds
\* (both log a failure and return)
TransportCalls ==
    [op : {"transport"}, pc : {"call"}, transport : Transports, quick : BOOLEAN,
     connection : Connections, init_ok : BOOLEAN]

\* the first lines of _scrape_with_playwright and _quick_check_with_playwright
\* up to the page being open: inits counts init_browser, tries counts
\* browser.new_page
OpenWithPlaywright(connection, init_ok) ==
    IF connection = "none"
    THEN [inits |-> 1, tries |-> 1, connected |-> init_ok]
    ELSE IF connection = "alive"
    THEN [inits |-> 0, tries |-> 1, connected |-> TRUE]
    ELSE [inits |-> 1, tries |-> 2, connected |-> init_ok]

\* the first lines of _scrape_with_http and _quick_check_with_http up to the
\* request being sent: inits counts init_session, tries counts session.get
OpenWithHttp(connection, init_ok) ==
    IF connection = "none"
    THEN [inits |-> 1, tries |-> 1, connected |-> init_ok]
    ELSE IF connection = "alive"
    THEN [inits |-> 0, tries |-> 1, connected |-> TRUE]
    ELSE [inits |-> 0, tries |-> 1, connected |-> FALSE]

\* a transport that could not connect: the full scrape raises, the quick
\* check returns None
ConnectionFailure(quick) == IF quick THEN "None" ELSE "raise"

\* a transport opens its page or sends its request
Transport ==
    /\ scrape.op = "transport"
    /\ scrape.pc = "call"
    /\ LET opened == IF scrape.transport = "playwright"
                     THEN OpenWithPlaywright(scrape.connection, scrape.init_ok)
                     ELSE OpenWithHttp(scrape.connection, scrape.init_ok)
       IN scrape' = [op |-> "transport", pc |-> "return", transport |-> scrape.transport,
                     quick |-> scrape.quick, connection |-> scrape.connection,
                     init_ok |-> scrape.init_ok, opened |-> opened,
                     result |-> IF opened.connected THEN "page" ELSE ConnectionFailure(scrape.quick)]
    /\ UNCHANGED <<now, trackings, notifications_enabled, jobs, alert, consecutive_failures, stock_run, ownerVars, blocked_bot, conversation, limiterVars>>

\* the keywords an availability text can hold: one of the adapter's
\* in_stock_indicators, one of its out_of_stock_indicators
Keywords == {"in", "out"}

\* what the adapter's stock_selector finds on the page: no element, elements
\* without text, or elements whose joined text holds these keywords
NoElement == [found |-> "no_element", keywords |-> {}]
NoText == [found |-> "no_text", keywords |-> {}]
MatchedText(keywords) == [found |-> "text", keywords |-> keywords]
SelectorMatches == {NoElement, NoText} \cup {MatchedText(k) : k \in SUBSET Keywords}

\* the flags of an adapter read by the availability code:
\* store_config.get('strict_availability', False) and whether
\* in_stock_indicators are configured (the default is the empty list)
Adapters == [strict_availability : BOOLEAN, in_stock_indicators : BOOLEAN]

\* the four paths that report availability
Paths == {"extract_playwright", "extract_soup", "quick_playwright", "quick_http"}

\* a page as the availability code sees it: the selector's matches and the
\* keywords of the whole content, which holds the text of the matches
Pages ==
    {pg \in [stock : SelectorMatches, content : SUBSET Keywords] : pg.stock.keywords \subseteq pg.content}

AvailabilityCalls ==
    [op : {"availability"}, pc : {"call"}, path : Paths, adapter : Adapters, page : Pages]

\* any(ind.lower() in text for ind in in_stock_indicators)
MatchesIn(adapter, keywords) == adapter.in_stock_indicators /\ "in" \in keywords

\* any(ind.lower() in text for ind in out_of_stock_indicators)
MatchesOut(keywords) == "out" \in keywords

\* the stock decision of _extract_product_info_playwright, before the
\* ProductInfo is built
DecidePlaywright(adapter, page) ==
    IF page.stock.found = "text"
    THEN IF MatchesIn(adapter, page.stock.keywords) THEN "True"
         ELSE IF MatchesOut(page.stock.keywords) THEN "False"
         ELSE IF adapter.strict_availability THEN "None" ELSE "True"
    ELSE IF adapter.strict_availability THEN "None"
    ELSE IF MatchesOut(page.content) THEN "False"
    ELSE "True"

\* ProductInfo(in_stock=(True if in_stock is None else in_stock))
ExtractPlaywright(adapter, page) ==
    LET in_stock == DecidePlaywright(adapter, page)
    IN IF in_stock = "None" THEN "True" ELSE in_stock

\* the stock decision of _extract_product_info_soup
ExtractSoup(adapter, page) ==
    IF page.stock.found = "text"
    THEN IF MatchesOut(page.stock.keywords) THEN "False" ELSE "True"
    ELSE IF MatchesOut(page.content) THEN "False" ELSE "True"

\* _quick_check_with_playwright once the page is open
QuickCheckWithPlaywright(adapter, page) ==
    IF page.stock.found # "no_element"
    THEN IF MatchesIn(adapter, page.stock.keywords) THEN "True"
         ELSE IF MatchesOut(page.stock.keywords) THEN "False"
         ELSE IF adapter.strict_availability THEN "None" ELSE "True"
    ELSE IF adapter.strict_availability THEN "None"
    ELSE IF MatchesOut(page.content) THEN "False"
    ELSE "True"

\* _quick_check_with_http once the response arrived with status 200
QuickCheckWithHttp(adapter, page) ==
    IF MatchesOut(page.content) THEN "False" ELSE "True"

\* the availability reported on a path: "True", "False", or "None" for unknown
Reported(path, adapter, page) ==
    IF path = "extract_playwright" THEN ExtractPlaywright(adapter, page)
    ELSE IF path = "extract_soup" THEN ExtractSoup(adapter, page)
    ELSE IF path = "quick_playwright" THEN QuickCheckWithPlaywright(adapter, page)
    ELSE QuickCheckWithHttp(adapter, page)

\* a path decides the availability of the page
Availability ==
    /\ scrape.op = "availability"
    /\ scrape.pc = "call"
    /\ scrape' = [op |-> "availability", pc |-> "return", path |-> scrape.path,
                  adapter |-> scrape.adapter, page |-> scrape.page,
                  in_stock |-> Reported(scrape.path, scrape.adapter, scrape.page)]
    /\ UNCHANGED <<now, trackings, notifications_enabled, jobs, alert, consecutive_failures, stock_run, ownerVars, blocked_bot, conversation, limiterVars>>

\* a name and the stage that found it; product_name = "לא זמין" at the start
\* of an extraction
Name(text, stage) == [text |-> text, stage |-> stage]
Placeholder == Name("placeholder", "start")

\* what a name stage finds: nothing, a product name, a text of fewer than 3
\* characters, or the store's display name
NoName == "none"
Candidates == {NoName, "product", "ab", "site"}

\* the name stages of _extract_product_info_playwright and of
\* _extract_product_info_soup, in the order of the code
Stages(path) ==
    IF path = "playwright"
    THEN <<"selectors", "frames", "json_ld", "meta", "title", "url_guess", "popup">>
    ELSE <<"selectors", "json_ld", "meta", "title", "url_guess">>

\* _is_invalid_product_name
IsInvalidProductName(name) == name.text \in {NoName, "placeholder", "ab", "site"}

\* the condition under which the code enters a stage
Enters(stage, product_name) ==
    IF stage = "selectors" THEN TRUE
    ELSE IF stage \in {"frames", "json_ld", "meta", "title"} THEN product_name = Placeholder
    ELSE IsInvalidProductName(product_name)

\* what a stage finds on a page: guess_product_name_from_url returns None or
\* a name of 3 characters or more, and the popup stage finds nothing, since
\* its urlparse is read before the import further down the function binds it
Finds(page, stage) ==
    IF stage = "popup" THEN NoName ELSE page[stage]

NamePages ==
    [selectors : Candidates, frames : {NoName, "product"}, json_ld : Candidates,
     meta : {NoName, "product"}, title : Candidates, url_guess : {NoName, "product"}]

NameCalls ==
    [op : {"name"}, pc : {"call"}, path : {"playwright", "soup"}, page : NamePages]

\* the stages from the k-th on, given the name so far: the stages entered,
\* in order, and the final product_name
RECURSIVE Cascade(_, _, _, _)
Cascade(stages, k, page, product_name) ==
    IF k > Len(stages) THEN [ran |-> <<>>, product_name |-> product_name]
    ELSE IF ~Enters(stages[k], product_name) THEN Cascade(stages, k + 1, page, product_name)
    ELSE LET candidate == Finds(page, stages[k])
             rest == Cascade(stages, k + 1, page,
                             IF candidate # NoName THEN Name(candidate, stages[k]) ELSE product_name)
         IN [ran |-> <<stages[k]>> \o rest.ran, product_name |-> rest.product_name]

\* the name part of an extraction
ExtractName ==
    /\ scrape.op = "name"
    /\ scrape.pc = "call"
    /\ LET result == Cascade(Stages(scrape.path), 1, scrape.page, Placeholder)
       IN scrape' = [op |-> "name", pc |-> "return", path |-> scrape.path, page |-> scrape.page,
                     ran |-> result.ran, product_name |-> result.product_name]
    /\ UNCHANGED <<now, trackings, notifications_enabled, jobs, alert, consecutive_failures, stock_run, ownerVars, blocked_bot, conversation, limiterVars>>

\* a call of get_product_key and its return
KeyCalls == [op : {"get_product_key"}, pc : {"call"}, url : ParsedUrls, store_id : StoreIds]

GetProductKeyCall ==
    /\ scrape.op = "get_product_key"
    /\ scrape.pc = "call"
    /\ scrape' = [op |-> "get_product_key", pc |-> "return", url |-> scrape.url,
                  store_id |-> scrape.store_id,
                  product_key |-> get_product_key(scrape.url, scrape.store_id)]
    /\ UNCHANGED <<now, trackings, notifications_enabled, jobs, alert, consecutive_failures, stock_run, ownerVars, blocked_bot, conversation, limiterVars>>

\* the scraper alone: a call with its inputs, then the code applied to it
InitScraper ==
    /\ now = 0
    /\ trackings = [t \in Ids |-> NoDoc]
    /\ notifications_enabled = [u \in AllUsers |-> TRUE]
    /\ jobs = <<>>
    /\ alert = [t \in Ids |-> "none"]
    /\ consecutive_failures = [t \in Ids |-> 0]
    /\ stock_run = [t \in Ids |-> NoRun]
    /\ user_stats = [u \in AllUsers |-> UserStats(0)]
    /\ pending_track = [u \in AllUsers |-> NoPending]
    /\ conversation = NoConversation
    /\ blocked_bot = [u \in AllUsers |-> FALSE]
    /\ rate_limit_cache = [u \in AllUsers |-> <<>>]
    /\ admitted = [u \in AllUsers |-> <<>>]
    /\ scrape \in GetProductInfoCalls \cup TransportCalls \cup AvailabilityCalls \cup NameCalls
                   \cup KeyCalls

NextScraper ==
    \/ GetProductInfoPrimary
    \/ GetProductInfoFallback
    \/ Transport
    \/ Availability
    \/ ExtractName
    \/ GetProductKeyCall

SpecScraper == InitScraper /\ [][NextScraper]_vars

\* C26: get_product_info performs at most two transport attempts per call:
\* the primary transport chosen by the adapter's requires_js flag, then the
\* other transport at most once; the fallback is attempted exactly when the
\* primary raised, returned an explicit error, or returned the placeholder
\* name, and there is never a second fallback.
C26_AtMostOneFallback ==
    scrape.op = "get_product_info"
        => LET primary == IF scrape.requires_js THEN "playwright" ELSE "http"
               attempts == scrape.attempts
           IN /\ Len(attempts) <= 2
              /\ Len(attempts) >= 1 => attempts[1] = primary
              /\ Len(attempts) = 2 => attempts[2] = Other(primary)
              /\ scrape.pc = "fallback" => Len(attempts) = 1
              /\ scrape.pc = "return"
                    => (Len(attempts) = 2
                          <=> scrape.known /\ scrape.gives[primary] \in {"raise", "error", "placeholder"})

\* a rendered page gave the placeholder name and the lightweight transport
\* was tried after it
C26_Witness ==
    /\ scrape.op = "get_product_info"
    /\ scrape.pc = "return"
    /\ scrape.requires_js
    /\ scrape.gives["playwright"] = "placeholder"
    /\ scrape.attempts = <<"playwright", "http">>

\* C27: when the browser or the HTTP session is found dead, each transport
\* (rendered and lightweight, full scrape and quick check) initialises it
\* again once and retries exactly once; if that retry also fails the result
\* is a fetch error, with no further retry.
C27_DeadConnectionRetriedOnce ==
    (scrape.op = "transport" /\ scrape.pc = "return" /\ scrape.connection = "closed")
        => /\ scrape.opened.inits = 1
           /\ scrape.opened.tries = 2
           /\ ~scrape.opened.connected => scrape.result = ConnectionFailure(scrape.quick)

\* C28: for a strict-availability adapter, when no availability selector
\* matches on the page, availability is reported as unknown on every path
\* (full extraction and quick check, rendered and lightweight), and a
\* stock-mode tracking polled with that result never gets the status IN_STOCK.
C28_StrictUnknown ==
    (/\ scrape.op = "availability"
     /\ scrape.pc = "return"
     /\ scrape.adapter.strict_availability
     /\ scrape.page.stock = NoElement)
        => /\ scrape.in_stock = "None"
           /\ \A status \in {OUT_OF_STOCK, ACTIVE} :
                 StockOutcome(ProductTracking("u1", "url1", "stock", status, 0, NoHash, NoField),
                              scrape.in_stock).new_status # IN_STOCK

\* C29: when the availability text collected from the adapter's selector
\* matches both an out-of-stock keyword and an in-stock keyword, the
\* reported availability is out-of-stock, on every extraction and quick-check
\* path.
C29_OutOfStockWins ==
    (/\ scrape.op = "availability"
     /\ scrape.pc = "return"
     /\ scrape.adapter.in_stock_indicators
     /\ scrape.page.stock = MatchedText({"in", "out"}))
        => scrape.in_stock = "False"

\* C30: in both extraction paths, once a name stage yields a valid name
\* (non-empty, at least 3 characters, not the store's display name) no later
\* stage runs and the final name is that stage's result; conversely a stage
\* that yields no name or an invalid one makes the cascade continue to the
\* next stage.
C30_CascadeStopsAtValidName ==
    (scrape.op = "name" /\ scrape.pc = "return")
        => LET stages == Stages(scrape.path)
               ran == scrape.ran
           IN /\ \A k \in 1..Len(ran) :
                    Finds(scrape.page, ran[k]) = "product"
                        => /\ k = Len(ran)
                           /\ scrape.product_name = Name("product", ran[k])
              /\ \A k \in 1..(Len(stages) - 1) :
                    (/\ \E i \in 1..Len(ran) : ran[i] = stages[k]
                     /\ Finds(scrape.page, stages[k]) # "product")
                        => \E i \in 1..Len(ran) : ran[i] = stages[k + 1]

\* the identifier parameter that an address carries: the first non-blank
\* ite_item, else the first non-blank uuid, else nothing
Carried(url) ==
    LET named(n) == {i \in 1..Len(url.query) : url.query[i].name = n /\ url.query[i].value # ""}
    IN IF named("ite_item") # {} THEN url.query[First(named("ite_item"))]
       ELSE IF named("uuid") # {} THEN url.query[First(named("uuid"))]
       ELSE [name |-> "ref", value |-> ""]

\* C31: get_product_key is a function of its arguments; two addresses of
\* the same site that carry the same identifier parameter (ite_item, else
\* uuid) and differ in other query parameters have the same key; the
\* identifier parameter is taken before any digits of the path; and the key
\* is null when there is neither an identifier parameter nor a digit run in
\* the path.
C31_KeyOfIdentifier ==
    (scrape.op = "get_product_key" /\ scrape.pc = "return")
        => LET url == scrape.url
               carried == Carried(url)
           IN /\ scrape.product_key = get_product_key(url, scrape.store_id)
              /\ carried.name # "ref"
                    => /\ scrape.product_key.kind # "id"
                       /\ \A other \in ParsedUrls :
                              (other.netloc = url.netloc /\ Carried(other) = carried)
                                 => get_product_key(other, scrape.store_id) = scrape.product_key
                       /\ url.netloc = "shop"
                              => scrape.product_key = Key(carried.name, carried.value)
              /\ (carried.name = "ref" /\ DigitRuns(url.path) = {})
                    => scrape.product_key = NoKey

\* an address with digits in its path, a uuid and another parameter before
\* it was given its uuid as key
C31_Witness ==
    /\ scrape.op = "get_product_key"
    /\ scrape.pc = "return"
    /\ scrape.url.netloc = "shop"
    /\ scrape.url.path = <<"product", "2">>
    /\ scrape.url.query = <<[name |-> "ref", value |-> "1"], [name |-> "uuid", value |-> "1"]>>
    /\ scrape.product_key = Key("uuid", "1")

\* handle_url_input runs for owner u with a lookup that failed
FailedLookupOf(u) ==
    \E url \in AllUrls, lookup \in Lookups, options \in BOOLEAN, exact \in BOOLEAN, reply \in Replies :
        /\ LookupFails(lookup)
        /\ UrlMessage(u, url, lookup, options, exact, reply)

\* C32 as stated: after a failed lookup no tracking is created or modified,
\* and the conversation is in WAITING_FOR_URL, where the next text is handled
\* by handle_url_input again.
C32_StaysWaitingForUrl ==
    /\ [][\A u \in Users : FailedLookupOf(u)
              => UNCHANGED <<trackings, user_stats, pending_track>>]_vars
    /\ [](\A u \in Users, url \in AllUrls, lookup \in Lookups, options \in BOOLEAN, reply \in Replies :
             LookupFails(lookup)
                => AfterUrlMessage(conversation, trackings, u, url, lookup, options, reply)[u]
                     = WAITING_FOR_URL)

\* C32: after a failed lookup no tracking is created or modified and the
\* conversation does not advance: when the failure message was delivered it
\* is in WAITING_FOR_URL if the text was taken by the conversation (none yet,
\* or WAITING_FOR_URL) and stays in WAITING_FOR_OPTION or SETTING_FREQUENCY
\* otherwise; when the failure message could not be delivered it ends or
\* stays as it was. In each case a further address is handled by
\* handle_url_input.
C32_FailedLookupDoesNotAdvance ==
    /\ [][\A u \in Users : FailedLookupOf(u)
              => UNCHANGED <<trackings, user_stats, pending_track>>]_vars
    /\ [](\A u \in Users, url \in AllUrls, lookup \in Lookups, options \in BOOLEAN, reply \in Replies :
             LookupFails(lookup)
                => LET after == AfterUrlMessage(conversation, trackings, u, url, lookup, options, reply)[u]
                   IN /\ reply = "sent"
                         => after = IF conversation[u] \in {END, WAITING_FOR_URL}
                                    THEN WAITING_FOR_URL ELSE conversation[u]
                      /\ reply # "sent" => after \in {END, conversation[u]})

\* a user who was asked for a purchase option sends another address, whose
\* lookup would fail
C32_Witness ==
    /\ conversation["u1"] = WAITING_FOR_OPTION
    /\ pending_track["u1"] = "url1"
    /\ trackings[1] # NoDoc
    /\ AfterUrlMessage(conversation, trackings, "u1", "url2", "None", FALSE, "sent")["u1"]
          = WAITING_FOR_OPTION

\* C33: when send_message raises Forbidden for an alert, the owner's users
\* document is flagged blocked_bot, no alert record with delivered = True is
\* saved for the attempt, and the check and its cycle go on: the outcome of
\* the poll is stored and the job continues with the rest of its batch and
\* its list.
C33_ForbiddenFlagsOwner ==
    [][\A j \in DOMAIN jobs : \A tracking \in jobs[j].batch : \A fetched \in Fetched(tracking) :
        ( /\ notifications_enabled[tracking.user_id]
          /\ CheckOutcome(tracking, fetched).notify
          /\ CheckSingleStock(j, tracking, fetched, "forbidden") ) =>
            LET outcome == CheckOutcome(tracking, fetched)
            IN /\ blocked_bot'[tracking.user_id]
               /\ \A u \in AllUsers \ {tracking.user_id} : blocked_bot'[u] = blocked_bot[u]
               /\ alert'[tracking.id] = "lost"
               /\ trackings' = UpdateTrackingStatus(trackings, tracking.id, outcome.new_status,
                                    outcome.error_count, outcome.notification_sent,
                                    outcome.page_hash, outcome.change_detected)
               /\ DOMAIN jobs' = DOMAIN jobs
               /\ jobs'[j].batch = jobs[j].batch \ {tracking}
               /\ jobs'[j].todo = jobs[j].todo]_vars

\* the owner was flagged after an alert that was not delivered, and the cycle
\* of that check is still running
C33_Witness ==
    /\ blocked_bot["u1"]
    /\ jobs # <<>>
    /\ \E t \in Ids : Exists(trackings[t]) /\ alert[t] = "lost" /\ trackings[t].last_checked = Date(now)

\* C34: every alert that a poll decided is delivered at least once: an alert
\* whose delivery failed after the outcome of the poll was stored is sent
\* again, or decided again by a later poll, and then delivered.
C34_LostAlertIsDeliveredLater ==
    \A t \in Ids : (alert[t] = "lost") ~> (alert[t] = "sent")

\* the requests of a user that were let through inside the window that ends
\* at utcnow
InWindow(user_id, utcnow) ==
    {i \in DOMAIN admitted[user_id] :
        /\ admitted[user_id][i] > utcnow - RATE_LIMIT_WINDOW
        /\ admitted[user_id][i] <= utcnow}

\* C35: _check_rate_limit lets through at most RATE_LIMIT_PER_USER requests
\* of a user in any window of RATE_LIMIT_WINDOW; a call returns true and
\* records the request when fewer than RATE_LIMIT_PER_USER of the user's
\* requests were let through inside the window, returns false and records
\* nothing otherwise, and leaves the other users' records and results as
\* they were.
C35_RateLimit ==
    /\ [](\A u \in AllUsers : \A utcnow \in 0..now :
            Cardinality(InWindow(u, utcnow)) <= RATE_LIMIT_PER_USER)
    /\ [](\A u \in AllUsers :
            CheckRateLimitResult(rate_limit_cache, u, now)
                <=> Cardinality(InWindow(u, now)) < RATE_LIMIT_PER_USER)
    /\ [][\A u \in AllUsers : LimitedRequest(u) =>
            /\ rate_limit_cache'[u] =
                    IF Cardinality(InWindow(u, now)) < RATE_LIMIT_PER_USER
                    THEN Append(Recent(rate_limit_cache[u], now), now)
                    ELSE Recent(rate_limit_cache[u], now)
            /\ \A v \in AllUsers \ {u} :
                    /\ rate_limit_cache'[v] = rate_limit_cache[v]
                    /\ CheckRateLimitResult(rate_limit_cache', v, now)
                          = CheckRateLimitResult(rate_limit_cache, v, now)]_vars

\* a user is refused while another user, who asked after them, is let
\* through, and was let through again once the window had passed
C35_Witness ==
    /\ now = RATE_LIMIT_WINDOW
    /\ Len(admitted["u1"]) = RATE_LIMIT_PER_USER + 1
    /\ admitted["u1"][RATE_LIMIT_PER_USER + 1] = now
    /\ Len(admitted["u2"]) = RATE_LIMIT_PER_USER
    /\ ~CheckRateLimitResult(rate_limit_cache, "u2", now)
    /\ CheckRateLimitResult(rate_limit_cache, "u1", now)

\* C36: a stock-mode tracking that a poll found out of stock is selected and
\* polled again in later cycles, so that an alert is emitted once its page is
\* in stock again.
C36_OutOfStockIsPolledAgain ==
    \A t \in Ids : (trackings[t].status = OUT_OF_STOCK) ~> (alert[t] # "none")

\* C37: one change of a page's fingerprint gives at most one alert for a
\* tracking and adds exactly one to its change_count, however the checks of
\* the tracking interleave: a check alerts and counts only when the page it
\* fetched differs from the fingerprint that is stored when it writes, so a
\* change that another check has already recorded is not recorded again.
C37_OneAlertPerChange ==
    [][\A j \in DOMAIN jobs : \A tracking \in jobs[j].batch :
         \A fetched \in PageResults, delivery \in Deliveries :
            ( /\ tracking.tracking_mode = "changes"
              /\ Stays(tracking.id)
              /\ CheckOutcome(tracking, fetched).notify
              /\ CheckSingleStock(j, tracking, fetched, delivery) ) =>
                trackings[tracking.id].last_page_hash # fetched.hash]_vars

\* C38: the check interval that the owner chose for a tracking decides when
\* it is due: a check of the tracking writes its outcome only when the
\* tracking's own check_interval has elapsed since its last_checked.
C38_IntervalDecidesDue ==
    [][\A t \in Ids :
         ( /\ Stays(t)
           /\ trackings[t].last_checked.kind = "date"
           /\ (PollOf(t, TRUE) \/ PollOf(t, FALSE)) ) =>
            now - trackings[t].last_checked.at >= trackings[t].check_interval]_vars

\* a check of tracking t is running
Checking(t) == \E j \in DOMAIN jobs : \E tracking \in jobs[j].batch : tracking.id = t

\* C39: every ACTIVE tracking that is due is eventually checked: trackings
\* whose checks never update last_checked do not keep the selection to
\* themselves. The tracking is checked, or its owner takes it out of the
\* ACTIVE state.
C39_DueIsEventuallyChecked ==
    \A t \in Ids :
        ( /\ ~UnknownStore(t)
          /\ NeedsCheck(trackings[t], now, DEFAULT_CHECK_INTERVAL) )
            ~> (Checking(t) \/ trackings[t].status # ACTIVE)

\* the callbacks pause_<t> and resume_<t> received from user u: the handlers
\* take the tracking id from the callback data and do not read the sender
PauseCallback(u, t) == HandlePauseTracking(t)

ResumeCallback(u, t) == HandleResumeTracking(t)

\* C40: a pause or resume request of a user who does not own the tracking
\* it names leaves that tracking as it was.
C40_OnlyOwnerPausesOrResumes ==
    [][\A u \in AllUsers, t \in Ids :
          ( /\ PauseCallback(u, t) \/ ResumeCallback(u, t)
            /\ Exists(trackings[t])
            /\ trackings[t].user_id # u )
              => trackings'[t] = trackings[t]]_vars
====
